---- MODULE Spec2Model ----
(***************************************************************************)
(* Model of the HALLEL Shibuya booking service (src/app.py and the mail    *)
(* connector src/gmail_fast_sync.py).                                      *)
(*                                                                         *)
(* State: the in-memory schedule store reservations_db (date -> ordered    *)
(* list of slot dicts), the judgment log reservation_judgment_logs and,    *)
(* for requests served concurrently, the position and locals of each       *)
(* request thread.  The mail classifier (src/reservation_classifier.py)    *)
(* and the functions of src/gmail_parser.py are functions of a mail's      *)
(* text; classifier and parser hold the mail at hand and what was made of  *)
(* it.  database is the reservations table of src/database.py and         *)
(* backup_files the files its backup_to_json writes.                       *)
(* The admin session is Flask's client-side cookie: it arrives with each   *)
(* request and is an input of the handlers, not server state.              *)
(*                                                                         *)
(* A str is the sequence of its Unicode code points.  The other values a   *)
(* dict can hold are None, True and False.  Python dicts are functions     *)
(* over one universal key set; a key that is not in the dict maps to       *)
(* Absent: d[k] then raises KeyError, d.get(k) yields None and             *)
(* d.get(k, default) the default, while a key that holds None yields None  *)
(* in all three.  The two numeric keys (confidence, group) use AbsentN.    *)
(* Confidence is kept in hundredths (100 = 1.0).                           *)
(*                                                                         *)
(* A judgment-log line is kept as the serial number of its append (its     *)
(* time stamp); the formatted text is written once and never read.         *)
(* activity_logs is written by log_activity only and read by no handler,   *)
(* it is left out of the state.                                            *)
(***************************************************************************)
EXTENDS Integers, Sequences, FiniteSets, TLC

(* ------------------------------ bounds --------------------------------- *)
MaxSlots == 3
MaxBatch == 2
MaxLogged == 3
MaxLogOps == 3
MaxPhrases == 2
MaxRows == 2

(* ------------------------- program constants --------------------------- *)
LogLimit == 200

(* ------------------------------ values --------------------------------- *)
(* no such key in the dict *)
Absent == <<-1>>

(* None, JSON null *)
None == <<-2>>

(* True and False *)
PyTrue == <<-3>>

PyFalse == <<-4>>

AbsentN == -1

StrKeys == {"date", "start", "end", "start_time", "end_time", "customer_name",
            "type", "action_type", "is_cancellation", "source", "message_id",
            "sender", "email_subject", "email_id", "email_sender"}
NumKeys == {"confidence", "group"}
Keys == StrKeys \cup NumKeys

EmptyDict == [k \in Keys |-> IF k \in NumKeys THEN AbsentN ELSE Absent]

(* truthiness of a value: None, False and '' are false *)
Falsy(v) == v = None \/ v = PyFalse \/ v = <<>>

(* dict.get(key) *)
Get(d, k) == IF d[k] = Absent THEN None ELSE d[k]

(* dict.get(key, default): a key that holds None yields None *)
GetOr(d, k, default) == IF d[k] = Absent THEN default ELSE d[k]

GetOrN(d, k, default) == IF d[k] = AbsentN THEN default ELSE d[k]

(* ------------------------------- text ---------------------------------- *)
Newline == 10

CarriageReturn == 13

(* least and greatest element of a non-empty set of integers *)
Least(S) == CHOOSE i \in S : \A j \in S : i <= j

Greatest(S) == CHOOSE i \in S : \A j \in S : i >= j

(* text[i], 0 past the end *)
At(text, i) == IF i \in DOMAIN text THEN text[i] ELSE 0

(* the literal stands in the text at i *)
LitAt(text, i, literal) ==
    /\ i >= 1
    /\ i + Len(literal) - 1 <= Len(text)
    /\ \A k \in DOMAIN literal : text[i + k - 1] = literal[k]

(* needle in text *)
In(needle, text) == \E i \in 1..(Len(text) - Len(needle) + 1) : LitAt(text, i, needle)

(* str.replace(old, '') for a one-character old *)
RECURSIVE RemoveChar(_, _)
RemoveChar(text, ch) ==
    IF text = <<>> THEN <<>>
    ELSE IF Head(text) = ch THEN RemoveChar(Tail(text), ch)
    ELSE <<Head(text)>> \o RemoveChar(Tail(text), ch)

(* The tables of the Unicode database of the interpreter (14.0).           *)
(* DigitZeros: the zero of each run of ten decimal digits (category Nd),   *)
(* which \d matches and int() reads.  Spaces: the characters \s matches    *)
(* and str.strip removes.  LowerRuns: the characters str.lower maps to one *)
(* other character, as runs <<first, last, step, offset>>.  CasedRanges    *)
(* and CaseIgnorableRanges: the characters that are cased and not          *)
(* case-ignorable, and those that are case-ignorable, for the lower case   *)
(* of the capital sigma.                                                   *)
DigitZeros ==
    { 48, 1632, 1776, 1984, 2406, 2534, 2662, 2790, 2918, 3046,
     3174, 3302, 3430, 3558, 3664, 3792, 3872, 4160, 4240, 6112,
     6160, 6470, 6608, 6784, 6800, 6992, 7088, 7232, 7248, 42528,
     43216, 43264, 43472, 43504, 43600, 44016, 65296, 66720, 68912, 69734,
     69872, 69942, 70096, 70384, 70736, 70864, 71248, 71360, 71472, 71904,
     72016, 72784, 73040, 73120, 92768, 92864, 93008, 120782, 120792, 120802,
     120812, 120822, 123200, 123632, 125264, 130032}

Spaces ==
    { 9, 10, 11, 12, 13, 28, 29, 30, 31, 32,
     133, 160, 5760, 8192, 8193, 8194, 8195, 8196, 8197, 8198,
     8199, 8200, 8201, 8202, 8232, 8233, 8239, 8287, 12288}

LowerRuns ==
    { <<65, 90, 1, 32>>, <<192, 214, 1, 32>>, <<216, 222, 1, 32>>, <<256, 302, 2, 1>>,
     <<306, 310, 2, 1>>, <<313, 327, 2, 1>>, <<330, 374, 2, 1>>, <<376, 376, 1, -121>>,
     <<377, 381, 2, 1>>, <<385, 385, 1, 210>>, <<386, 388, 2, 1>>, <<390, 390, 1, 206>>,
     <<391, 391, 1, 1>>, <<393, 394, 1, 205>>, <<395, 395, 1, 1>>, <<398, 398, 1, 79>>,
     <<399, 399, 1, 202>>, <<400, 400, 1, 203>>, <<401, 401, 1, 1>>, <<403, 403, 1, 205>>,
     <<404, 404, 1, 207>>, <<406, 406, 1, 211>>, <<407, 407, 1, 209>>, <<408, 408, 1, 1>>,
     <<412, 412, 1, 211>>, <<413, 413, 1, 213>>, <<415, 415, 1, 214>>, <<416, 420, 2, 1>>,
     <<422, 422, 1, 218>>, <<423, 423, 1, 1>>, <<425, 425, 1, 218>>, <<428, 428, 1, 1>>,
     <<430, 430, 1, 218>>, <<431, 431, 1, 1>>, <<433, 434, 1, 217>>, <<435, 437, 2, 1>>,
     <<439, 439, 1, 219>>, <<440, 440, 1, 1>>, <<444, 444, 1, 1>>, <<452, 452, 1, 2>>,
     <<453, 453, 1, 1>>, <<455, 455, 1, 2>>, <<456, 456, 1, 1>>, <<458, 458, 1, 2>>,
     <<459, 475, 2, 1>>, <<478, 494, 2, 1>>, <<497, 497, 1, 2>>, <<498, 500, 2, 1>>,
     <<502, 502, 1, -97>>, <<503, 503, 1, -56>>, <<504, 542, 2, 1>>, <<544, 544, 1, -130>>,
     <<546, 562, 2, 1>>, <<570, 570, 1, 10795>>, <<571, 571, 1, 1>>, <<573, 573, 1, -163>>,
     <<574, 574, 1, 10792>>, <<577, 577, 1, 1>>, <<579, 579, 1, -195>>, <<580, 580, 1, 69>>,
     <<581, 581, 1, 71>>, <<582, 590, 2, 1>>, <<880, 882, 2, 1>>, <<886, 886, 1, 1>>,
     <<895, 895, 1, 116>>, <<902, 902, 1, 38>>, <<904, 906, 1, 37>>, <<908, 908, 1, 64>>,
     <<910, 911, 1, 63>>, <<913, 929, 1, 32>>, <<931, 939, 1, 32>>, <<975, 975, 1, 8>>,
     <<984, 1006, 2, 1>>, <<1012, 1012, 1, -60>>, <<1015, 1015, 1, 1>>, <<1017, 1017, 1, -7>>,
     <<1018, 1018, 1, 1>>, <<1021, 1023, 1, -130>>, <<1024, 1039, 1, 80>>, <<1040, 1071, 1, 32>>,
     <<1120, 1152, 2, 1>>, <<1162, 1214, 2, 1>>, <<1216, 1216, 1, 15>>, <<1217, 1229, 2, 1>>,
     <<1232, 1326, 2, 1>>, <<1329, 1366, 1, 48>>, <<4256, 4293, 1, 7264>>, <<4295, 4295, 1, 7264>>,
     <<4301, 4301, 1, 7264>>, <<5024, 5103, 1, 38864>>, <<5104, 5109, 1, 8>>, <<7312, 7354, 1, -3008>>,
     <<7357, 7359, 1, -3008>>, <<7680, 7828, 2, 1>>, <<7838, 7838, 1, -7615>>, <<7840, 7934, 2, 1>>,
     <<7944, 7951, 1, -8>>, <<7960, 7965, 1, -8>>, <<7976, 7983, 1, -8>>, <<7992, 7999, 1, -8>>,
     <<8008, 8013, 1, -8>>, <<8025, 8031, 2, -8>>, <<8040, 8047, 1, -8>>, <<8072, 8079, 1, -8>>,
     <<8088, 8095, 1, -8>>, <<8104, 8111, 1, -8>>, <<8120, 8121, 1, -8>>, <<8122, 8123, 1, -74>>,
     <<8124, 8124, 1, -9>>, <<8136, 8139, 1, -86>>, <<8140, 8140, 1, -9>>, <<8152, 8153, 1, -8>>,
     <<8154, 8155, 1, -100>>, <<8168, 8169, 1, -8>>, <<8170, 8171, 1, -112>>, <<8172, 8172, 1, -7>>,
     <<8184, 8185, 1, -128>>, <<8186, 8187, 1, -126>>, <<8188, 8188, 1, -9>>, <<8486, 8486, 1, -7517>>,
     <<8490, 8490, 1, -8383>>, <<8491, 8491, 1, -8262>>, <<8498, 8498, 1, 28>>, <<8544, 8559, 1, 16>>,
     <<8579, 8579, 1, 1>>, <<9398, 9423, 1, 26>>, <<11264, 11311, 1, 48>>, <<11360, 11360, 1, 1>>,
     <<11362, 11362, 1, -10743>>, <<11363, 11363, 1, -3814>>, <<11364, 11364, 1, -10727>>, <<11367, 11371, 2, 1>>,
     <<11373, 11373, 1, -10780>>, <<11374, 11374, 1, -10749>>, <<11375, 11375, 1, -10783>>, <<11376, 11376, 1, -10782>>,
     <<11378, 11378, 1, 1>>, <<11381, 11381, 1, 1>>, <<11390, 11391, 1, -10815>>, <<11392, 11490, 2, 1>>,
     <<11499, 11501, 2, 1>>, <<11506, 11506, 1, 1>>, <<42560, 42604, 2, 1>>, <<42624, 42650, 2, 1>>,
     <<42786, 42798, 2, 1>>, <<42802, 42862, 2, 1>>, <<42873, 42875, 2, 1>>, <<42877, 42877, 1, -35332>>,
     <<42878, 42886, 2, 1>>, <<42891, 42891, 1, 1>>, <<42893, 42893, 1, -42280>>, <<42896, 42898, 2, 1>>,
     <<42902, 42920, 2, 1>>, <<42922, 42922, 1, -42308>>, <<42923, 42923, 1, -42319>>, <<42924, 42924, 1, -42315>>,
     <<42925, 42925, 1, -42305>>, <<42926, 42926, 1, -42308>>, <<42928, 42928, 1, -42258>>, <<42929, 42929, 1, -42282>>,
     <<42930, 42930, 1, -42261>>, <<42931, 42931, 1, 928>>, <<42932, 42946, 2, 1>>, <<42948, 42948, 1, -48>>,
     <<42949, 42949, 1, -42307>>, <<42950, 42950, 1, -35384>>, <<42951, 42953, 2, 1>>, <<42960, 42960, 1, 1>>,
     <<42966, 42968, 2, 1>>, <<42997, 42997, 1, 1>>, <<65313, 65338, 1, 32>>, <<66560, 66599, 1, 40>>,
     <<66736, 66771, 1, 40>>, <<66928, 66938, 1, 39>>, <<66940, 66954, 1, 39>>, <<66956, 66962, 1, 39>>,
     <<66964, 66965, 1, 39>>, <<68736, 68786, 1, 64>>, <<71840, 71871, 1, 32>>, <<93760, 93791, 1, 32>>,
     <<125184, 125217, 1, 34>>}

CasedRanges ==
    { <<65, 90>>, <<97, 122>>, <<170, 170>>, <<181, 181>>, <<186, 186>>, <<192, 214>>,
     <<216, 246>>, <<248, 442>>, <<444, 447>>, <<452, 659>>, <<661, 687>>, <<880, 883>>,
     <<886, 887>>, <<891, 893>>, <<895, 895>>, <<902, 902>>, <<904, 906>>, <<908, 908>>,
     <<910, 929>>, <<931, 1013>>, <<1015, 1153>>, <<1162, 1327>>, <<1329, 1366>>, <<1376, 1416>>,
     <<4256, 4293>>, <<4295, 4295>>, <<4301, 4301>>, <<4304, 4346>>, <<4349, 4351>>, <<5024, 5109>>,
     <<5112, 5117>>, <<7296, 7304>>, <<7312, 7354>>, <<7357, 7359>>, <<7424, 7467>>, <<7531, 7543>>,
     <<7545, 7578>>, <<7680, 7957>>, <<7960, 7965>>, <<7968, 8005>>, <<8008, 8013>>, <<8016, 8023>>,
     <<8025, 8025>>, <<8027, 8027>>, <<8029, 8029>>, <<8031, 8061>>, <<8064, 8116>>, <<8118, 8124>>,
     <<8126, 8126>>, <<8130, 8132>>, <<8134, 8140>>, <<8144, 8147>>, <<8150, 8155>>, <<8160, 8172>>,
     <<8178, 8180>>, <<8182, 8188>>, <<8450, 8450>>, <<8455, 8455>>, <<8458, 8467>>, <<8469, 8469>>,
     <<8473, 8477>>, <<8484, 8484>>, <<8486, 8486>>, <<8488, 8488>>, <<8490, 8493>>, <<8495, 8500>>,
     <<8505, 8505>>, <<8508, 8511>>, <<8517, 8521>>, <<8526, 8526>>, <<8544, 8575>>, <<8579, 8580>>,
     <<9398, 9449>>, <<11264, 11387>>, <<11390, 11492>>, <<11499, 11502>>, <<11506, 11507>>, <<11520, 11557>>,
     <<11559, 11559>>, <<11565, 11565>>, <<42560, 42605>>, <<42624, 42651>>, <<42786, 42863>>, <<42865, 42887>>,
     <<42891, 42894>>, <<42896, 42954>>, <<42960, 42961>>, <<42963, 42963>>, <<42965, 42969>>, <<42997, 42998>>,
     <<43002, 43002>>, <<43824, 43866>>, <<43872, 43880>>, <<43888, 43967>>, <<64256, 64262>>, <<64275, 64279>>,
     <<65313, 65338>>, <<65345, 65370>>, <<66560, 66639>>, <<66736, 66771>>, <<66776, 66811>>, <<66928, 66938>>,
     <<66940, 66954>>, <<66956, 66962>>, <<66964, 66965>>, <<66967, 66977>>, <<66979, 66993>>, <<66995, 67001>>,
     <<67003, 67004>>, <<68736, 68786>>, <<68800, 68850>>, <<71840, 71903>>, <<93760, 93823>>, <<119808, 119892>>,
     <<119894, 119964>>, <<119966, 119967>>, <<119970, 119970>>, <<119973, 119974>>, <<119977, 119980>>, <<119982, 119993>>,
     <<119995, 119995>>, <<119997, 120003>>, <<120005, 120069>>, <<120071, 120074>>, <<120077, 120084>>, <<120086, 120092>>,
     <<120094, 120121>>, <<120123, 120126>>, <<120128, 120132>>, <<120134, 120134>>, <<120138, 120144>>, <<120146, 120485>>,
     <<120488, 120512>>, <<120514, 120538>>, <<120540, 120570>>, <<120572, 120596>>, <<120598, 120628>>, <<120630, 120654>>,
     <<120656, 120686>>, <<120688, 120712>>, <<120714, 120744>>, <<120746, 120770>>, <<120772, 120779>>, <<122624, 122633>>,
     <<122635, 122654>>, <<125184, 125251>>, <<127280, 127305>>, <<127312, 127337>>, <<127344, 127369>>}

CaseIgnorableRanges ==
    { <<39, 39>>, <<46, 46>>, <<58, 58>>, <<94, 94>>, <<96, 96>>, <<168, 168>>,
     <<173, 173>>, <<175, 175>>, <<180, 180>>, <<183, 184>>, <<688, 879>>, <<884, 885>>,
     <<890, 890>>, <<900, 901>>, <<903, 903>>, <<1155, 1161>>, <<1369, 1369>>, <<1375, 1375>>,
     <<1425, 1469>>, <<1471, 1471>>, <<1473, 1474>>, <<1476, 1477>>, <<1479, 1479>>, <<1524, 1524>>,
     <<1536, 1541>>, <<1552, 1562>>, <<1564, 1564>>, <<1600, 1600>>, <<1611, 1631>>, <<1648, 1648>>,
     <<1750, 1757>>, <<1759, 1768>>, <<1770, 1773>>, <<1807, 1807>>, <<1809, 1809>>, <<1840, 1866>>,
     <<1958, 1968>>, <<2027, 2037>>, <<2042, 2042>>, <<2045, 2045>>, <<2070, 2093>>, <<2137, 2139>>,
     <<2184, 2184>>, <<2192, 2193>>, <<2200, 2207>>, <<2249, 2306>>, <<2362, 2362>>, <<2364, 2364>>,
     <<2369, 2376>>, <<2381, 2381>>, <<2385, 2391>>, <<2402, 2403>>, <<2417, 2417>>, <<2433, 2433>>,
     <<2492, 2492>>, <<2497, 2500>>, <<2509, 2509>>, <<2530, 2531>>, <<2558, 2558>>, <<2561, 2562>>,
     <<2620, 2620>>, <<2625, 2626>>, <<2631, 2632>>, <<2635, 2637>>, <<2641, 2641>>, <<2672, 2673>>,
     <<2677, 2677>>, <<2689, 2690>>, <<2748, 2748>>, <<2753, 2757>>, <<2759, 2760>>, <<2765, 2765>>,
     <<2786, 2787>>, <<2810, 2815>>, <<2817, 2817>>, <<2876, 2876>>, <<2879, 2879>>, <<2881, 2884>>,
     <<2893, 2893>>, <<2901, 2902>>, <<2914, 2915>>, <<2946, 2946>>, <<3008, 3008>>, <<3021, 3021>>,
     <<3072, 3072>>, <<3076, 3076>>, <<3132, 3132>>, <<3134, 3136>>, <<3142, 3144>>, <<3146, 3149>>,
     <<3157, 3158>>, <<3170, 3171>>, <<3201, 3201>>, <<3260, 3260>>, <<3263, 3263>>, <<3270, 3270>>,
     <<3276, 3277>>, <<3298, 3299>>, <<3328, 3329>>, <<3387, 3388>>, <<3393, 3396>>, <<3405, 3405>>,
     <<3426, 3427>>, <<3457, 3457>>, <<3530, 3530>>, <<3538, 3540>>, <<3542, 3542>>, <<3633, 3633>>,
     <<3636, 3642>>, <<3654, 3662>>, <<3761, 3761>>, <<3764, 3772>>, <<3782, 3782>>, <<3784, 3789>>,
     <<3864, 3865>>, <<3893, 3893>>, <<3895, 3895>>, <<3897, 3897>>, <<3953, 3966>>, <<3968, 3972>>,
     <<3974, 3975>>, <<3981, 3991>>, <<3993, 4028>>, <<4038, 4038>>, <<4141, 4144>>, <<4146, 4151>>,
     <<4153, 4154>>, <<4157, 4158>>, <<4184, 4185>>, <<4190, 4192>>, <<4209, 4212>>, <<4226, 4226>>,
     <<4229, 4230>>, <<4237, 4237>>, <<4253, 4253>>, <<4348, 4348>>, <<4957, 4959>>, <<5906, 5908>>,
     <<5938, 5939>>, <<5970, 5971>>, <<6002, 6003>>, <<6068, 6069>>, <<6071, 6077>>, <<6086, 6086>>,
     <<6089, 6099>>, <<6103, 6103>>, <<6109, 6109>>, <<6155, 6159>>, <<6211, 6211>>, <<6277, 6278>>,
     <<6313, 6313>>, <<6432, 6434>>, <<6439, 6440>>, <<6450, 6450>>, <<6457, 6459>>, <<6679, 6680>>,
     <<6683, 6683>>, <<6742, 6742>>, <<6744, 6750>>, <<6752, 6752>>, <<6754, 6754>>, <<6757, 6764>>,
     <<6771, 6780>>, <<6783, 6783>>, <<6823, 6823>>, <<6832, 6862>>, <<6912, 6915>>, <<6964, 6964>>,
     <<6966, 6970>>, <<6972, 6972>>, <<6978, 6978>>, <<7019, 7027>>, <<7040, 7041>>, <<7074, 7077>>,
     <<7080, 7081>>, <<7083, 7085>>, <<7142, 7142>>, <<7144, 7145>>, <<7149, 7149>>, <<7151, 7153>>,
     <<7212, 7219>>, <<7222, 7223>>, <<7288, 7293>>, <<7376, 7378>>, <<7380, 7392>>, <<7394, 7400>>,
     <<7405, 7405>>, <<7412, 7412>>, <<7416, 7417>>, <<7468, 7530>>, <<7544, 7544>>, <<7579, 7679>>,
     <<8125, 8125>>, <<8127, 8129>>, <<8141, 8143>>, <<8157, 8159>>, <<8173, 8175>>, <<8189, 8190>>,
     <<8203, 8207>>, <<8216, 8217>>, <<8228, 8228>>, <<8231, 8231>>, <<8234, 8238>>, <<8288, 8292>>,
     <<8294, 8303>>, <<8305, 8305>>, <<8319, 8319>>, <<8336, 8348>>, <<8400, 8432>>, <<11388, 11389>>,
     <<11503, 11505>>, <<11631, 11631>>, <<11647, 11647>>, <<11744, 11775>>, <<11823, 11823>>, <<12293, 12293>>,
     <<12330, 12333>>, <<12337, 12341>>, <<12347, 12347>>, <<12441, 12446>>, <<12540, 12542>>, <<40981, 40981>>,
     <<42232, 42237>>, <<42508, 42508>>, <<42607, 42610>>, <<42612, 42621>>, <<42623, 42623>>, <<42652, 42655>>,
     <<42736, 42737>>, <<42752, 42785>>, <<42864, 42864>>, <<42888, 42890>>, <<42994, 42996>>, <<43000, 43001>>,
     <<43010, 43010>>, <<43014, 43014>>, <<43019, 43019>>, <<43045, 43046>>, <<43052, 43052>>, <<43204, 43205>>,
     <<43232, 43249>>, <<43263, 43263>>, <<43302, 43309>>, <<43335, 43345>>, <<43392, 43394>>, <<43443, 43443>>,
     <<43446, 43449>>, <<43452, 43453>>, <<43471, 43471>>, <<43493, 43494>>, <<43561, 43566>>, <<43569, 43570>>,
     <<43573, 43574>>, <<43587, 43587>>, <<43596, 43596>>, <<43632, 43632>>, <<43644, 43644>>, <<43696, 43696>>,
     <<43698, 43700>>, <<43703, 43704>>, <<43710, 43711>>, <<43713, 43713>>, <<43741, 43741>>, <<43756, 43757>>,
     <<43763, 43764>>, <<43766, 43766>>, <<43867, 43871>>, <<43881, 43883>>, <<44005, 44005>>, <<44008, 44008>>,
     <<44013, 44013>>, <<64286, 64286>>, <<64434, 64450>>, <<65024, 65039>>, <<65043, 65043>>, <<65056, 65071>>,
     <<65106, 65106>>, <<65109, 65109>>, <<65279, 65279>>, <<65287, 65287>>, <<65294, 65294>>, <<65306, 65306>>,
     <<65342, 65342>>, <<65344, 65344>>, <<65392, 65392>>, <<65438, 65439>>, <<65507, 65507>>, <<65529, 65531>>,
     <<66045, 66045>>, <<66272, 66272>>, <<66422, 66426>>, <<67456, 67461>>, <<67463, 67504>>, <<67506, 67514>>,
     <<68097, 68099>>, <<68101, 68102>>, <<68108, 68111>>, <<68152, 68154>>, <<68159, 68159>>, <<68325, 68326>>,
     <<68900, 68903>>, <<69291, 69292>>, <<69446, 69456>>, <<69506, 69509>>, <<69633, 69633>>, <<69688, 69702>>,
     <<69744, 69744>>, <<69747, 69748>>, <<69759, 69761>>, <<69811, 69814>>, <<69817, 69818>>, <<69821, 69821>>,
     <<69826, 69826>>, <<69837, 69837>>, <<69888, 69890>>, <<69927, 69931>>, <<69933, 69940>>, <<70003, 70003>>,
     <<70016, 70017>>, <<70070, 70078>>, <<70089, 70092>>, <<70095, 70095>>, <<70191, 70193>>, <<70196, 70196>>,
     <<70198, 70199>>, <<70206, 70206>>, <<70367, 70367>>, <<70371, 70378>>, <<70400, 70401>>, <<70459, 70460>>,
     <<70464, 70464>>, <<70502, 70508>>, <<70512, 70516>>, <<70712, 70719>>, <<70722, 70724>>, <<70726, 70726>>,
     <<70750, 70750>>, <<70835, 70840>>, <<70842, 70842>>, <<70847, 70848>>, <<70850, 70851>>, <<71090, 71093>>,
     <<71100, 71101>>, <<71103, 71104>>, <<71132, 71133>>, <<71219, 71226>>, <<71229, 71229>>, <<71231, 71232>>,
     <<71339, 71339>>, <<71341, 71341>>, <<71344, 71349>>, <<71351, 71351>>, <<71453, 71455>>, <<71458, 71461>>,
     <<71463, 71467>>, <<71727, 71735>>, <<71737, 71738>>, <<71995, 71996>>, <<71998, 71998>>, <<72003, 72003>>,
     <<72148, 72151>>, <<72154, 72155>>, <<72160, 72160>>, <<72193, 72202>>, <<72243, 72248>>, <<72251, 72254>>,
     <<72263, 72263>>, <<72273, 72278>>, <<72281, 72283>>, <<72330, 72342>>, <<72344, 72345>>, <<72752, 72758>>,
     <<72760, 72765>>, <<72767, 72767>>, <<72850, 72871>>, <<72874, 72880>>, <<72882, 72883>>, <<72885, 72886>>,
     <<73009, 73014>>, <<73018, 73018>>, <<73020, 73021>>, <<73023, 73029>>, <<73031, 73031>>, <<73104, 73105>>,
     <<73109, 73109>>, <<73111, 73111>>, <<73459, 73460>>, <<78896, 78904>>, <<92912, 92916>>, <<92976, 92982>>,
     <<92992, 92995>>, <<94031, 94031>>, <<94095, 94111>>, <<94176, 94177>>, <<94179, 94180>>, <<110576, 110579>>,
     <<110581, 110587>>, <<110589, 110590>>, <<113821, 113822>>, <<113824, 113827>>, <<118528, 118573>>, <<118576, 118598>>,
     <<119143, 119145>>, <<119155, 119170>>, <<119173, 119179>>, <<119210, 119213>>, <<119362, 119364>>, <<121344, 121398>>,
     <<121403, 121452>>, <<121461, 121461>>, <<121476, 121476>>, <<121499, 121503>>, <<121505, 121519>>, <<122880, 122886>>,
     <<122888, 122904>>, <<122907, 122913>>, <<122915, 122916>>, <<122918, 122922>>, <<123184, 123197>>, <<123566, 123566>>,
     <<123628, 123631>>, <<125136, 125142>>, <<125252, 125259>>, <<127995, 127999>>, <<917505, 917505>>, <<917536, 917631>>,
     <<917760, 917999>>}

Digits == UNION {z..(z + 9) : z \in DigitZeros}

(* \d of the re module on str *)
IsDigit(c) == c \in Digits

(* the value of a decimal digit *)
DigitValue(c) == (c - Least({z \in DigitZeros : z > c - 10 /\ z <= c}))

(* \s of the re module on str; the characters str.strip removes *)
IsSpace(c) == c \in Spaces

LowerPairs ==
    UNION {{<<c, c + r[4]>> : c \in {x \in r[1]..r[2] : (x - r[1]) % r[3] = 0}} : r \in LowerRuns}

LowerDomain == {p[1] : p \in LowerPairs}

LowerMap == [c \in LowerDomain |-> (CHOOSE p \in LowerPairs : p[1] = c)[2]]

Cased == UNION {r[1]..r[2] : r \in CasedRanges}

CaseIgnorable == UNION {r[1]..r[2] : r \in CaseIgnorableRanges}

(* the lower case of the capital sigma at i: the final form after a cased  *)
(* letter and not before one, case-ignorable characters skipped            *)
SigmaAt(text, i) ==
    LET before == {j \in 1..(i - 1) : text[j] \notin CaseIgnorable}
        after == {j \in (i + 1)..Len(text) : text[j] \notin CaseIgnorable}
    IN IF /\ before # {}
          /\ text[Greatest(before)] \in Cased
          /\ (after = {} \/ text[Least(after)] \notin Cased)
       THEN 962
       ELSE 963

(* the lower case of the character at i *)
LowerAt(text, i) ==
    IF text[i] < 128
    THEN IF text[i] >= 65 /\ text[i] <= 90 THEN <<text[i] + 32>> ELSE <<text[i]>>
    ELSE IF text[i] = 931 THEN <<SigmaAt(text, i)>>
    ELSE IF text[i] = 304 THEN <<105, 775>>
    ELSE IF text[i] \in LowerDomain THEN <<LowerMap[text[i]]>>
    ELSE <<text[i]>>

RECURSIVE Concat(_)
Concat(parts) == IF parts = <<>> THEN <<>> ELSE Head(parts) \o Concat(Tail(parts))

(* str.lower *)
Lower(text) ==
    IF \A i \in DOMAIN text : text[i] # 304
    THEN [i \in DOMAIN text |-> LowerAt(text, i)[1]]
    ELSE Concat([i \in DOMAIN text |-> LowerAt(text, i)])

(* int() of a string of decimal digits *)
RECURSIVE ToInt(_)
ToInt(digits) ==
    IF digits = <<>> THEN 0
    ELSE 10 * ToInt(SubSeq(digits, 1, Len(digits) - 1)) + DigitValue(digits[Len(digits)])

(* str() of a natural number *)
RECURSIVE ToDigits(_)
ToDigits(n) == IF n < 10 THEN <<48 + n>> ELSE Append(ToDigits(n \div 10), 48 + (n % 10))

(* format(n, '0<width>d') for n >= 0 *)
RECURSIVE ZeroPad(_, _)
ZeroPad(digits, width) ==
    IF Len(digits) >= width THEN digits ELSE ZeroPad(<<48>> \o digits, width)

(* str.zfill(2): zeros go after a leading sign *)
Zfill2(t) ==
    IF Len(t) >= 2 THEN t
    ELSE IF t = <<>> THEN <<48, 48>>
    ELSE IF t[1] = 43 \/ t[1] = 45 THEN <<t[1], 48>>
    ELSE <<48>> \o t

(* str.strip *)
Strip(text) ==
    LET solid == {i \in DOMAIN text : ~IsSpace(text[i])}
    IN IF solid = {} THEN <<>>
       ELSE SubSeq(text, Least(solid), Greatest(solid))

(* first index from i on whose character is not in the class, for a        *)
(* greedy \s*, [...]* or \d*                                               *)
Skip(text, i, InClass(_)) ==
    Least({j \in i..(Len(text) + 1) : ~(j \in DOMAIN text /\ InClass(text[j]))})

(* first index from i on that is not white space *)
SkipSpace(text, i) == Skip(text, i, IsSpace)

(* the line of the character at i, from i on: the index after the last    *)
(* character before the next \n or \r                                      *)
LineEnd(text, i) ==
    Least({j \in i..(Len(text) + 1) :
              j = Len(text) + 1 \/ text[j] = Newline \/ text[j] = CarriageReturn})

(* re.search of a pattern given by its match-at-i function: the groups of  *)
(* the leftmost match, <<>> if none                                        *)
Search(text, MatchAt(_, _)) ==
    LET starts == {i \in DOMAIN text : MatchAt(text, i) # <<>>}
    IN IF starts = {} THEN <<>> ELSE MatchAt(text, Least(starts))

(* \d{1,2} followed by the character ch, at i: the number of digits taken, *)
(* 0 if there is no match                                                  *)
DigitsThen(text, i, ch) ==
    IF IsDigit(At(text, i)) /\ IsDigit(At(text, i + 1)) /\ At(text, i + 2) = ch THEN 2
    ELSE IF IsDigit(At(text, i)) /\ At(text, i + 1) = ch THEN 1
    ELSE 0

(* lines joined with newlines *)
RECURSIVE JoinLines(_)
JoinLines(lines) ==
    IF lines = <<>> THEN <<>>
    ELSE IF Len(lines) = 1 THEN lines[1]
    ELSE lines[1] \o <<Newline>> \o JoinLines(Tail(lines))

(* ------------------------ literals of the mail code -------------------- *)
(* hallel *)
TxtHallel == <<104, 97, 108, 108, 101, 108>>

(* HALLEL *)
TxtHALLEL == <<72, 65, 76, 76, 69, 76>>

(* hacomono *)
TxtHacomono == <<104, 97, 99, 111, 109, 111, 110, 111>>

(* 半蔵門店 *)
TxtHanzomonTen == <<21322, 34101, 38272, 24215>>

(* hanzomon *)
TxtHanzomon == <<104, 97, 110, 122, 111, 109, 111, 110>>

(* 渋谷店 *)
TxtShibuyaTen == <<28171, 35895, 24215>>

(* 渋谷 *)
TxtShibuyaKanji == <<28171, 35895>>

(* shibuya *)
TxtShibuya == <<115, 104, 105, 98, 117, 121, 97>>

(* キャンセル *)
TxtCancelKana == <<12461, 12515, 12531, 12475, 12523>>

(* cancel *)
TxtCancel == <<99, 97, 110, 99, 101, 108>>

(* 予約 *)
TxtYoyaku == <<20104, 32004>>

(* ありがとう *)
TxtArigatou == <<12354, 12426, 12364, 12392, 12358>>

(* 承り *)
TxtUketamawari == <<25215, 12426>>

(* 不明 *)
TxtFumei == <<19981, 26126>>

(* STUDIO *)
TxtSTUDIO == <<83, 84, 85, 68, 73, 79>>

(* 日時： *)
TxtNichiji == <<26085, 26178, 65306>>

(* お名前 *)
TxtOnamae == <<12362, 21517, 21069>>

(* 氏名 *)
TxtShimei == <<27663, 21517>>

(* ご予約 *)
TxtGoyoyaku == <<12372, 20104, 32004>>

(* 以下の予約 *)
TxtIkaNoYoyaku == <<20197, 19979, 12398, 20104, 32004>>

(* 年, 月, 日, 様 and the characters : ~ - / ( ) *)
ChNen == 24180

ChGatsu == 26376

ChNichi == 26085

ChSama == 27096

ChColon == 58

ChTilde == 126

ChHyphen == 45

ChSlash == 47

ChOpen == 40

ChClose == 41

(* the fullwidth colon ： , the wave dash 〜 and the fullwidth tilde ～ *)
ChWideColon == 65306

ChWaveDash == 12316

ChWideTilde == 65374

(* the circled digits of the studio pattern: ⑥①②③④⑤⑦⑧⑨⑩ *)
Circled == {9317, 9312, 9313, 9314, 9315, 9316, 9318, 9319, 9320, 9321}

(* self.booking_keywords *)
booking_keywords ==
    <<(* ご予約ありがとうございます *)
       <<12372, 20104, 32004, 12354, 12426, 12364, 12392, 12358, 12372, 12374, 12356, 12414, 12377>>,
      (* 以下の内容を承りました *)
       <<20197, 19979, 12398, 20869, 23481, 12434, 25215, 12426, 12414, 12375, 12383>>,
      (* ご確認ください *)
       <<12372, 30906, 35469, 12367, 12384, 12373, 12356>>,
      (* 予約が完了 *)
       <<20104, 32004, 12364, 23436, 20102>>,
      (* 承りました *)
       <<25215, 12426, 12414, 12375, 12383>>>>

(* self.cancellation_keywords *)
cancellation_keywords ==
    <<(* キャンセルいたしました *)
       <<12461, 12515, 12531, 12475, 12523, 12356, 12383, 12375, 12414, 12375, 12383>>,
      (* 予約をキャンセル *)
       <<20104, 32004, 12434, 12461, 12515, 12531, 12475, 12523>>,
      (* キャンセルしました *)
       <<12461, 12515, 12531, 12475, 12523, 12375, 12414, 12375, 12383>>,
      (* 取り消し *)
       <<21462, 12426, 28040, 12375>>,
      (* キャンセル完了 *)
       <<12461, 12515, 12531, 12475, 12523, 23436, 20102>>>>

(* ----------------------------- literals -------------------------------- *)
(* gmail *)
TxtGmail == <<103, 109, 97, 105, 108>>

(* gas *)
TxtGas == <<103, 97, 115>>

(* manual *)
TxtManual == <<109, 97, 110, 117, 97, 108>>

(* N/A *)
TxtNA == <<78, 47, 65>>

(* booking *)
TxtBooking == <<98, 111, 111, 107, 105, 110, 103>>

(* cancellation *)
TxtCancellation == <<99, 97, 110, 99, 101, 108, 108, 97, 116, 105, 111, 110>>

(* fast_gmail_sync *)
TxtFastGmailSync == <<102, 97, 115, 116, 95, 103, 109, 97, 105, 108, 95, 115, 121, 110, 99>>

(* 2025-11-02 and 2025-11-03 *)
D1 == <<50, 48, 50, 53, 45, 49, 49, 45, 48, 50>>

D2 == <<50, 48, 50, 53, 45, 49, 49, 45, 48, 51>>

(* 10:00, 14:00, 11:00 and 11:30 *)
S1 == <<49, 48, 58, 48, 48>>

S2 == <<49, 52, 58, 48, 48>>

E1 == <<49, 49, 58, 48, 48>>

E2 == <<49, 49, 58, 51, 48>>

(* Tanaka *)
TxtTanaka == <<84, 97, 110, 97, 107, 97>>

Dates == {D1, D2}

Starts == {S1, S2}

Ends == {E1, E2}

Names == {TxtTanaka}

(* ------------------------------ state ---------------------------------- *)
VARIABLES reservations_db, reservation_judgment_logs, threads, classifier, parser,
          database, backup_files

vars == <<reservations_db, reservation_judgment_logs, threads, classifier, parser,
         database, backup_files>>

(* the mail being classified, the mail being parsed, the SQLite table and  *)
(* the backup files: what the request handlers of the app leave alone      *)
mailvars == <<classifier, parser, database, backup_files>>

(* number of slots over all dates of a store *)
RECURSIVE TotalOver(_, _)
TotalOver(db, ks) ==
    IF ks = {} THEN 0
    ELSE LET k == CHOOSE x \in ks : TRUE
         IN Len(db[k]) + TotalOver(db, ks \ {k})

TotalSlots(db) == TotalOver(db, DOMAIN db)

(* reservations_db[date] = [] when the date is not a key yet *)
EnsureDate(db, date) ==
    IF date \in DOMAIN db THEN db ELSE db @@ (date :> <<>>)

(* list.pop(i), 1-based *)
Pop(list, i) == [j \in 1..(Len(list) - 1) |-> IF j < i THEN list[j] ELSE list[j + 1]]

(* index of the first entry of a verdict list that is not "no", 0 if none: *)
(* the slot at which a for-loop over the list matches ("yes") or raises    *)
FirstDecisive(verdicts) ==
    LET hits == {i \in DOMAIN verdicts : verdicts[i] # "no"}
    IN IF hits = {} THEN 0 ELSE CHOOSE i \in hits : \A j \in hits : i <= j

(* MkResp with the two counts exchanged *)
MkRespSwapped(status, added, cancelled, total_found) ==
    [status |-> status, added |-> cancelled, cancelled |-> added,
     total_found |-> total_found]

(* the JSON body of a response, as far as the handlers fill it *)
MkResp(status, added, cancelled, total_found) ==
    [status |-> status, added |-> added, cancelled |-> cancelled,
     total_found |-> total_found]

Status(status) == MkResp(status, AbsentN, AbsentN, AbsentN)

(* what a handler leaves behind: store, log and response *)
Out(db, logs, r) == [db |-> db, logs |-> logs, resp |-> r]

(* -------------------------- judgment log ------------------------------- *)
NextSerial(logs) == IF logs = <<>> THEN 1 ELSE logs[Len(logs)] + 1

(* append, then drop the oldest line while the log is over the limit *)
AppendTrim(logs) ==
    LET l == Append(logs, NextSerial(logs))
    IN IF Len(l) > LogLimit THEN Tail(l) ELSE l

log_reservation_judgment(logs) == AppendTrim(logs)

(* ------------------------------ session -------------------------------- *)
Cookies == {"none", "valid", "expired"}

(* is_logged_in: logged_in flag set and the two-hour lifetime not elapsed *)
is_logged_in(cookie) == cookie = "valid"

(* ---------------------- manual entry and delete ------------------------ *)
(* get_reservations: the store as the JSON object date -> list of slots    *)
get_reservations(db) == [date \in DOMAIN db |-> db[date]]

(* add_reservation: the posted dict itself becomes the slot, under the key *)
(* data.get('date'); no duplicate scan; one judgment line                  *)
add_reservation(db, logs, cookie, data) ==
    IF ~is_logged_in(cookie) THEN Out(db, logs, Status(401))
    ELSE LET date == Get(data, "date")
             db1 == EnsureDate(db, date)
         IN Out([db1 EXCEPT ![date] = Append(@, data)],
                log_reservation_judgment(logs),
                Status(200))

(* delete_reservation_api: index is 0-based *)
delete_reservation_api(db, logs, cookie, date, index) ==
    IF ~is_logged_in(cookie) THEN Out(db, logs, Status(401))
    ELSE IF date \in DOMAIN db /\ 0 <= index /\ index < Len(db[date])
         THEN Out([db EXCEPT ![date] = Pop(@, index + 1)], logs, Status(200))
         ELSE Out(db, logs, Status(400))

(* ---------------------- structured single event ------------------------ *)
(* the test of process_email's cancellation loop on one slot:             *)
(* r['start'] == start_time and r['type'] == 'gmail'; a subscript of a    *)
(* missing key raises KeyError                                            *)
ProcessCancelVerdict(r, start_time) ==
    IF r["start"] = Absent THEN "raise"
    ELSE IF r["start"] # start_time THEN "no"
    ELSE IF r["type"] = Absent THEN "raise"
    ELSE IF r["type"] = TxtGmail THEN "yes" ELSE "no"

(* process_email: no session check; an uncaught KeyError is a 500 *)
process_email(db, logs, data) ==
    LET action_type == Get(data, "action_type")
        date == Get(data, "date")
        start_time == Get(data, "start_time")
        end_time == Get(data, "end_time")
    IN IF Falsy(action_type) \/ Falsy(date) \/ Falsy(start_time)
       THEN Out(db, logs, Status(400))
       ELSE IF action_type = TxtBooking
       THEN IF Falsy(end_time) THEN Out(db, logs, Status(400))
            ELSE LET db1 == EnsureDate(db, date)
                     new_booking == [EmptyDict EXCEPT !["type"] = TxtGmail,
                                                      !["start"] = start_time,
                                                      !["end"] = end_time]
                 IN Out([db1 EXCEPT ![date] = Append(@, new_booking)], logs, Status(200))
       ELSE IF action_type = TxtCancellation /\ date \in DOMAIN db
       THEN LET verdicts == [i \in 1..Len(db[date]) |->
                                ProcessCancelVerdict(db[date][i], start_time)]
                i == FirstDecisive(verdicts)
            IN IF i = 0 THEN Out(db, logs, Status(404))
               ELSE IF verdicts[i] = "raise" THEN Out(db, logs, Status(500))
               ELSE Out([db EXCEPT ![date] = Pop(@, i)], logs, Status(200))
       ELSE Out(db, logs, Status(400))

(* --------------------------- webhook batch ----------------------------- *)
GasSecret == "hallel_gas_2024"

(* cancellation scan of gas_webhook on one slot: (start, type), the slot   *)
(* read with .get, the record with subscripts                              *)
GasCancelVerdict(existing, reservation) ==
    IF reservation["start"] = Absent THEN "raise"
    ELSE IF Get(existing, "start") # reservation["start"] THEN "no"
    ELSE IF reservation["type"] = Absent THEN "raise"
    ELSE IF Get(existing, "type") = reservation["type"] THEN "yes" ELSE "no"

(* duplicate scan of gas_webhook on one slot: (start, end, customer_name), *)
(* both names read with .get and no default                               *)
GasDuplicateVerdict(existing, reservation) ==
    IF reservation["start"] = Absent THEN "raise"
    ELSE IF Get(existing, "start") # reservation["start"] THEN "no"
    ELSE IF reservation["end"] = Absent THEN "raise"
    ELSE IF Get(existing, "end") # reservation["end"] THEN "no"
    ELSE IF Get(existing, "customer_name") = Get(reservation, "customer_name")
    THEN "yes" ELSE "no"

(* the slot gas_webhook stores *)
GasEntry(reservation) ==
    [EmptyDict EXCEPT !["start"] = reservation["start"],
                      !["end"] = reservation["end"],
                      !["customer_name"] = GetOr(reservation, "customer_name", TxtNA),
                      !["type"] = TxtGmail,
                      !["source"] = TxtGas]

(* one iteration of the loop of gas_webhook; acc.err is a raised KeyError *)
GasStep(acc, reservation) ==
    LET date == reservation["date"]
    IN IF date = Absent THEN [acc EXCEPT !.err = TRUE]
       ELSE
       LET db1 == EnsureDate(acc.db, date)
           list == db1[date]
       IN IF ~Falsy(GetOr(reservation, "is_cancellation", PyFalse))
          THEN LET verdicts == [i \in 1..Len(list) |-> GasCancelVerdict(list[i], reservation)]
                   i == FirstDecisive(verdicts)
               IN IF i = 0 THEN [acc EXCEPT !.db = db1]
                  ELSE IF verdicts[i] = "raise" THEN [acc EXCEPT !.db = db1, !.err = TRUE]
                  ELSE [acc EXCEPT !.db = [db1 EXCEPT ![date] = Pop(@, i)],
                                   !.cancelled = @ + 1,
                                   !.err = (reservation["end"] = Absent)]
          ELSE LET verdicts == [i \in 1..Len(list) |-> GasDuplicateVerdict(list[i], reservation)]
                   i == FirstDecisive(verdicts)
               IN IF i # 0 /\ verdicts[i] = "raise" THEN [acc EXCEPT !.db = db1, !.err = TRUE]
                  ELSE IF i # 0 THEN [acc EXCEPT !.db = db1]
                  ELSE IF reservation["start"] = Absent \/ reservation["end"] = Absent
                       THEN [acc EXCEPT !.db = db1, !.err = TRUE]
                  ELSE [acc EXCEPT !.db = [db1 EXCEPT ![date] = Append(@, GasEntry(reservation))],
                                   !.added = @ + 1]

RECURSIVE GasLoop(_, _, _)
GasLoop(acc, reservations, k) ==
    IF k > Len(reservations) \/ acc.err THEN acc
    ELSE GasLoop(GasStep(acc, reservations[k]), reservations, k + 1)

(* gas_webhook that restores the store when a record fails *)
gas_webhook_rollback(db, logs, auth_header, has_list, reservations) ==
    IF auth_header # GasSecret THEN Out(db, logs, Status(401))
    ELSE IF ~has_list THEN Out(db, logs, Status(400))
    ELSE LET acc == GasLoop([db |-> db, added |-> 0, cancelled |-> 0, err |-> FALSE],
                            reservations, 1)
         IN IF acc.err THEN Out(db, logs, Status(500))
            ELSE Out(acc.db, logs, MkResp(200, acc.added, acc.cancelled, Len(reservations)))

(* gas_webhook: shared-secret header, then the batch in the order received; *)
(* an exception ends the batch with a 500 and keeps what was done          *)
gas_webhook(db, logs, auth_header, has_list, reservations) ==
    IF auth_header # GasSecret THEN Out(db, logs, Status(401))
    ELSE IF ~has_list THEN Out(db, logs, Status(400))
    ELSE LET acc == GasLoop([db |-> db, added |-> 0, cancelled |-> 0, err |-> FALSE],
                            reservations, 1)
         IN IF acc.err THEN Out(acc.db, logs, Status(500))
            ELSE Out(acc.db, logs, MkResp(200, acc.added, acc.cancelled, Len(reservations)))

(* ------------------------------ mail sync ------------------------------ *)
(* SyncMatch with the name compared under the wrong key *)
SyncMatchWrongKey(existing, start_time, customer_name) ==
    Get(existing, "start") = start_time /\ Get(existing, "sender") = customer_name

(* the test both scans of sync_gmail_reservations use: (start, customer_name) *)
SyncMatch(existing, start_time, customer_name) ==
    Get(existing, "start") = start_time /\ Get(existing, "customer_name") = customer_name

(* the slot sync_gmail_reservations stores *)
SyncEntry(reservation, customer_name, confidence) ==
    [EmptyDict EXCEPT !["type"] = TxtGmail,
                      !["start"] = reservation["start"],
                      !["end"] = reservation["end"],
                      !["source"] = reservation["source"],
                      !["sender"] = GetOr(reservation, "sender", TxtNA),
                      !["email_subject"] = GetOr(reservation, "email_subject", TxtNA),
                      !["message_id"] = GetOr(reservation, "message_id", TxtNA),
                      !["customer_name"] = customer_name,
                      !["confidence"] = confidence,
                      !["group"] = 1]

(* one iteration of the loop of sync_gmail_reservations; the log line     *)
(* calls action_type.upper(), which raises on a value that is no string    *)
SyncStep(acc, reservation) ==
    IF reservation["date"] = Absent \/ reservation["start"] = Absent
       \/ reservation["end"] = Absent
    THEN [acc EXCEPT !.err = TRUE]
    ELSE
    LET date == reservation["date"]
        start_time == reservation["start"]
        customer_name == GetOr(reservation, "customer_name", TxtNA)
        action_type == GetOr(reservation, "action_type", TxtBooking)
        confidence == GetOrN(reservation, "confidence", 100)
        db1 == EnsureDate(acc.db, date)
        list == db1[date]
        logs1 == log_reservation_judgment(acc.logs)
        verdicts == [i \in 1..Len(list) |->
                        IF SyncMatch(list[i], start_time, customer_name) THEN "yes" ELSE "no"]
        i == FirstDecisive(verdicts)
    IN IF action_type \in {None, PyTrue, PyFalse}
       THEN [acc EXCEPT !.db = db1, !.err = TRUE]
       ELSE IF action_type = TxtCancellation
       THEN IF i = 0 THEN [acc EXCEPT !.db = db1, !.logs = logs1]
            ELSE [acc EXCEPT !.db = [db1 EXCEPT ![date] = Pop(@, i)], !.logs = logs1,
                             !.cancelled = @ + 1]
       ELSE IF action_type = TxtBooking
       THEN IF i # 0 THEN [acc EXCEPT !.db = db1, !.logs = logs1]
            ELSE IF reservation["source"] = Absent
                 THEN [acc EXCEPT !.db = db1, !.logs = logs1, !.err = TRUE]
            ELSE [acc EXCEPT !.db = [db1 EXCEPT ![date] =
                                        Append(@, SyncEntry(reservation, customer_name, confidence))],
                             !.logs = logs1,
                             !.added = @ + 1]
       ELSE [acc EXCEPT !.db = db1, !.logs = logs1]

RECURSIVE SyncLoop(_, _, _)
SyncLoop(acc, new_reservations, k) ==
    IF k > Len(new_reservations) \/ acc.err THEN acc
    ELSE SyncLoop(SyncStep(acc, new_reservations[k]), new_reservations, k + 1)

(* sync_gmail_reservations.  env is what the handler finds before the loop: *)
(* "disabled" (GMAIL_ENABLED false), "missing_env" (no credentials on      *)
(* Vercel), "init_raises" (FastGmailSync() raises) or "ok";                *)
(* new_reservations is the list get_recent_reservations returned.          *)
sync_gmail_reservations(db, logs, cookie, env, new_reservations) ==
    IF ~is_logged_in(cookie) THEN Out(db, logs, Status(401))
    ELSE IF env \in {"disabled", "missing_env"} THEN Out(db, logs, Status(503))
    ELSE IF env = "init_raises" THEN Out(db, logs, Status(500))
    ELSE LET acc == SyncLoop([db |-> db, logs |-> logs, added |-> 0, cancelled |-> 0,
                              err |-> FALSE], new_reservations, 1)
         IN IF acc.err THEN Out(acc.db, acc.logs, Status(500))
            ELSE Out(acc.db, acc.logs,
                     MkResp(200, acc.added, acc.cancelled, Len(new_reservations)))

(* --------------------------- log management ---------------------------- *)
(* add_log: data.get('message', '').strip(), empty after the strip is a 400 *)
add_log(db, logs, cookie, message) ==
    IF ~is_logged_in(cookie) THEN Out(db, logs, Status(401))
    ELSE IF Strip(message) = <<>> THEN Out(db, logs, Status(400))
    ELSE Out(db, AppendTrim(logs), Status(200))

(* clear_logs: empties the list, then records the clearing itself *)
clear_logs(db, logs, cookie) ==
    IF ~is_logged_in(cookie) THEN Out(db, logs, Status(401))
    ELSE Out(db, <<NextSerial(logs)>>, Status(200))

(* export_logs: joins the lines, then records the export itself *)
export_logs(db, logs, cookie) ==
    IF ~is_logged_in(cookie) THEN Out(db, logs, Status(401))
    ELSE Out(db, Append(logs, NextSerial(logs)), Status(200))

(* --------------------------- mail patterns ----------------------------- *)
(* DateAt that finds a date wherever it looks *)
DateAtAlways(text, i) == <<<<50, 48, 50, 53>>, <<49>>, <<49>>>>

(* r'(\d{4})年(\d{1,2})月(\d{1,2})日' at i: <<year, month, day>> as the    *)
(* matched digit strings, <<>> if there is no match at i                   *)
DateAt(text, i) ==
    LET m == DigitsThen(text, i + 5, ChGatsu)
        d == DigitsThen(text, i + 5 + m + 1, ChNichi)
    IN IF /\ \A j \in i..(i + 3) : IsDigit(At(text, j))
          /\ At(text, i + 4) = ChNen
          /\ m > 0
          /\ d > 0
       THEN <<SubSeq(text, i, i + 3), SubSeq(text, i + 5, i + 4 + m),
              SubSeq(text, i + 6 + m, i + 5 + m + d)>>
       ELSE <<>>

(* r'(\d{1,2}):(\d{2})<sep>(\d{1,2}):(\d{2})' at i for a one-character     *)
(* separator: the four groups, <<>> if there is no match at i              *)
TimeSepAt(text, i, sep) ==
    LET a == DigitsThen(text, i, ChColon)
        j == i + a + 4
        b == DigitsThen(text, j, ChColon)
    IN IF /\ a > 0
          /\ IsDigit(At(text, i + a + 1)) /\ IsDigit(At(text, i + a + 2))
          /\ At(text, i + a + 3) = sep
          /\ b > 0
          /\ IsDigit(At(text, j + b + 1)) /\ IsDigit(At(text, j + b + 2))
       THEN <<SubSeq(text, i, i + a - 1), SubSeq(text, i + a + 1, i + a + 2),
              SubSeq(text, j, j + b - 1), SubSeq(text, j + b + 1, j + b + 2)>>
       ELSE <<>>

(* r'(\d{1,2}):(\d{2})~(\d{1,2}):(\d{2})' at i *)
TimeAt(text, i) == TimeSepAt(text, i, ChTilde)

(* --------------------------- mail connector ---------------------------- *)
(* A message is kept as what the Gmail API hands to the connector: its id, *)
(* its Subject and From headers ('' when the header is missing), the text  *)
(* extract_body returns for it, and whether the two messages().get calls   *)
(* succeed.                                                                *)

(* r'(\d{4})[/-](\d{1,2})[/-](\d{1,2})' at i *)
DateSlashAt(text, i) ==
    LET IsSep(c) == c = ChSlash \/ c = ChHyphen
        m == IF IsDigit(At(text, i + 5)) /\ IsDigit(At(text, i + 6)) /\ IsSep(At(text, i + 7))
             THEN 2
             ELSE IF IsDigit(At(text, i + 5)) /\ IsSep(At(text, i + 6)) THEN 1
             ELSE 0
        k == i + 6 + m
        d == IF IsDigit(At(text, k)) /\ IsDigit(At(text, k + 1)) THEN 2
             ELSE IF IsDigit(At(text, k)) THEN 1
             ELSE 0
    IN IF /\ \A j \in i..(i + 3) : IsDigit(At(text, j))
          /\ IsSep(At(text, i + 4))
          /\ m > 0
          /\ d > 0
       THEN <<SubSeq(text, i, i + 3), SubSeq(text, i + 5, i + 4 + m),
              SubSeq(text, k, k + d - 1)>>
       ELSE <<>>

(* r'日時：(\d{4})年(\d{1,2})月(\d{1,2})日' at i *)
DatePrefixedAt(text, i) ==
    IF LitAt(text, i, TxtNichiji) THEN DateAt(text, i + Len(TxtNichiji)) ELSE <<>>

(* the date patterns in the order tried: the groups of the first pattern   *)
(* that is found, <<>> if none is                                          *)
date_match(body) ==
    IF Search(body, DateAt) # <<>> THEN Search(body, DateAt)
    ELSE IF Search(body, DateSlashAt) # <<>> THEN Search(body, DateSlashAt)
    ELSE Search(body, DatePrefixedAt)

(* r'(\d{1,2}):(\d{2})\s*[〜～~-]\s*(\d{1,2}):(\d{2})' at i *)
TimeRangeAt(text, i) ==
    LET a == DigitsThen(text, i, ChColon)
        s == SkipSpace(text, i + a + 3)
        j == SkipSpace(text, s + 1)
        b == DigitsThen(text, j, ChColon)
    IN IF /\ a > 0
          /\ IsDigit(At(text, i + a + 1)) /\ IsDigit(At(text, i + a + 2))
          /\ At(text, s) \in {ChWaveDash, ChWideTilde, ChTilde, ChHyphen}
          /\ b > 0
          /\ IsDigit(At(text, j + b + 1)) /\ IsDigit(At(text, j + b + 2))
       THEN <<SubSeq(text, i, i + a - 1), SubSeq(text, i + a + 1, i + a + 2),
              SubSeq(text, j, j + b - 1), SubSeq(text, j + b + 1, j + b + 2)>>
       ELSE <<>>

(* r'(\d{1,2}):(\d{2})～(\d{1,2}):(\d{2})' at i *)
TimeWideTildeAt(text, i) == TimeSepAt(text, i, ChWideTilde)

(* r'(\d{1,2}):(\d{2})-(\d{1,2}):(\d{2})' at i *)
TimeHyphenAt(text, i) == TimeSepAt(text, i, ChHyphen)

(* the time patterns in the order tried *)
time_match(body) ==
    IF Search(body, TimeRangeAt) # <<>> THEN Search(body, TimeRangeAt)
    ELSE IF Search(body, TimeWideTildeAt) # <<>> THEN Search(body, TimeWideTildeAt)
    ELSE Search(body, TimeHyphenAt)

(* r'^([^\n\r]+)\s*様' under re.MULTILINE at i: ^ holds at the start of    *)
(* the text and after a \n; the group is greedy and gives back characters  *)
(* until white space (\n and \r included) and 様 follow it.  <<group>>, or *)
(* <<>> if there is no match at i                                          *)
CustomerLineAt(text, i) ==
    LET ends == {e \in (i + 1)..LineEnd(text, i) : At(text, SkipSpace(text, e)) = ChSama}
    IN IF (i = 1 \/ text[i - 1] = Newline) /\ ends # {}
       THEN <<SubSeq(text, i, Greatest(ends) - 1)>>
       ELSE <<>>

(* r'(?:お名前|氏名)[：:\s]*([^\n\r]+)' at i: the greedy run of colons and *)
(* white space gives characters back when it has eaten the whole rest of   *)
(* the text                                                                *)
CustomerLabelAt(text, i) ==
    LET n == IF LitAt(text, i, TxtOnamae) THEN Len(TxtOnamae)
             ELSE IF LitAt(text, i, TxtShimei) THEN Len(TxtShimei)
             ELSE 0
        r == Skip(text, i + n, LAMBDA c : c = ChWideColon \/ c = ChColon \/ IsSpace(c))
        back == {g \in (i + n)..Len(text) : text[g] # Newline /\ text[g] # CarriageReturn}
    IN IF n = 0 THEN <<>>
       ELSE IF r <= Len(text) THEN <<SubSeq(text, r, LineEnd(text, r) - 1)>>
       ELSE IF back # {} THEN <<<<text[Greatest(back)]>>>>
       ELSE <<>>

(* r'([^\n\r]+)\s*様\s*\n\n(?:ご予約|以下の予約)' at i *)
CustomerBeforeNoticeAt(text, i) ==
    LET Notice(e) ==
            LET p == SkipSpace(text, e)
                t == SkipSpace(text, p + 1)
            IN /\ At(text, p) = ChSama
               /\ t - 2 >= p + 1
               /\ text[t - 2] = Newline
               /\ text[t - 1] = Newline
               /\ (LitAt(text, t, TxtGoyoyaku) \/ LitAt(text, t, TxtIkaNoYoyaku))
        ends == {e \in (i + 1)..LineEnd(text, i) : Notice(e)}
    IN IF ends # {} THEN <<SubSeq(text, i, Greatest(ends) - 1)>> ELSE <<>>

(* the customer patterns in the order tried: <<group 1>> of the first      *)
(* pattern that is found, <<>> if none is                                  *)
customer_match(body) ==
    IF Search(body, CustomerLineAt) # <<>> THEN Search(body, CustomerLineAt)
    ELSE IF Search(body, CustomerLabelAt) # <<>> THEN Search(body, CustomerLabelAt)
    ELSE Search(body, CustomerBeforeNoticeAt)

(* the customer name of parse_reservation: group 1 stripped, 様 removed,   *)
(* stripped again; 'N/A' when no pattern is found                          *)
customer_name_of(body) ==
    IF customer_match(body) = <<>> THEN TxtNA
    ELSE Strip(RemoveChar(Strip(customer_match(body)[1]), ChSama))

(* FastGmailSync.parse_reservation: <<record>>, or <<>> for None.  The     *)
(* groups go into the record as matched, padded by zfill, not through int  *)
parse_reservation(body, subject) ==
    IF body = <<>> THEN <<>>
    ELSE IF ~(\/ In(TxtShibuyaKanji, body)
              \/ In(TxtShibuya, Lower(body))
              \/ In(TxtHallel, Lower(body)))
    THEN <<>>
    ELSE IF date_match(body) = <<>> THEN <<>>
    ELSE IF time_match(body) = <<>> THEN <<>>
    ELSE LET is_cancellation == In(TxtCancelKana, subject) \/ In(TxtCancel, Lower(subject))
             date == date_match(body)
             time == time_match(body)
         IN <<[EmptyDict EXCEPT
                 !["date"] = date[1] \o <<ChHyphen>> \o Zfill2(date[2])
                               \o <<ChHyphen>> \o Zfill2(date[3]),
                 !["start"] = Zfill2(time[1]) \o <<ChColon>> \o time[2],
                 !["end"] = Zfill2(time[3]) \o <<ChColon>> \o time[4],
                 !["customer_name"] = customer_name_of(body),
                 !["type"] = TxtGmail,
                 !["is_cancellation"] = IF is_cancellation THEN PyTrue ELSE PyFalse,
                 !["source"] = TxtFastGmailSync]>>

(* the body of the loop of get_recent_reservations for one listed message: *)
(* the records it adds to the result (none or one)                         *)
RecordsOfMessage(message) ==
    IF ~message.get_ok THEN <<>>
    ELSE IF ~(In(TxtHallel, Lower(message.subject)) /\ In(TxtHacomono, Lower(message.sender)))
    THEN <<>>
    ELSE LET reservation == parse_reservation(message.body, message.subject)
         IN IF reservation = <<>> THEN <<>>
            ELSE <<[reservation[1] EXCEPT !["email_id"] = message.id,
                                          !["email_subject"] = message.subject,
                                          !["email_sender"] = message.sender]>>

RECURSIVE RecordsOfMessages(_, _)
RecordsOfMessages(messages, k) ==
    IF k > Len(messages) THEN <<>>
    ELSE RecordsOfMessage(messages[k]) \o RecordsOfMessages(messages, k + 1)

(* FastGmailSync.get_recent_reservations: no service or a failing list    *)
(* call give the empty list                                               *)
get_recent_reservations(service, list_ok, messages) ==
    IF service = "none" THEN <<>>
    ELSE IF ~list_ok THEN <<>>
    ELSE RecordsOfMessages(messages, 1)

(* --------------------------- float arithmetic -------------------------- *)
(* A confidence is an IEEE-754 double.  Every value the classifier can     *)
(* reach is h/20 + e*u with u = 2^-56 / 5 and small integers h and e; it   *)
(* is kept as [h, e].  0.1 is the double 0.1 + 2u, 0.15 the double         *)
(* 0.15 - 2u.  The doubles of [0.5, 1) are the multiples of 40u, those of  *)
(* [1, 2) the multiples of 80u; h/20 = h * 2^54 * u and 2^54 = 64 modulo   *)
(* 160, which places h/20 + e*u on that grid.                              *)
Float(h, e) == [h |-> h, e |-> e]

F_0_5 == Float(10, 0)

F_0_1 == Float(2, 2)

F_0_15 == Float(3, -2)

F_1_0 == Float(20, 0)

(* the literal 0.7 of the parser: the double 0.7 - 16u *)
F_0_7 == Float(14, -16)

(* a < b *)
FloatLess(a, b) == a.h < b.h \/ (a.h = b.h /\ a.e < b.e)

(* a + b, rounded to the nearest double, ties to the even mantissa; for    *)
(* sums in [0.5, 2)                                                        *)
FloatAdd(a, b) ==
    LET h == a.h + b.h
        e == a.e + b.e
        grid == IF h > 20 \/ (h = 20 /\ e >= 0) THEN 80 ELSE 40
        pos == (64 * h + e) % 160
        r == pos % grid
        down == Float(h, e - r)
        up == Float(h, e + grid - r)
    IN IF 2 * r < grid THEN down
       ELSE IF 2 * r > grid THEN up
       ELSE IF ((pos - r) \div grid) % 2 = 0 THEN down ELSE up

(* FloatMin that never takes the second *)
FloatFirst(a, b) == a

(* min(a, b) of Python: the first of the two unless the second is smaller *)
FloatMin(a, b) == IF FloatLess(b, a) THEN b ELSE a

(* a + b + ... + b, n times *)
RECURSIVE FloatAddTimes(_, _, _)
FloatAddTimes(a, b, n) == IF n = 0 THEN a ELSE FloatAddTimes(FloatAdd(a, b), b, n - 1)

(* _is_hallel_email without the brand test *)
is_hallel_email_no_brand(subject, body) ==
    IF In(TxtHanzomonTen, body) \/ In(TxtHanzomon, Lower(body)) THEN FALSE
    ELSE IF In(TxtShibuyaTen, body) \/ In(TxtShibuya, Lower(body)) THEN TRUE
    ELSE FALSE

(* _is_hallel_email with the store tests in the other order *)
is_hallel_email_allow_first(subject, body) ==
    IF ~In(TxtHallel, Lower(subject \o <<32>> \o body)) THEN FALSE
    ELSE IF In(TxtShibuyaTen, body) \/ In(TxtShibuya, Lower(body)) THEN TRUE
    ELSE FALSE

(* _is_hallel_email: brand marker anywhere, then the store filter on the   *)
(* body                                                                    *)
_is_hallel_email(subject, body) ==
    LET combined_text == Lower(subject \o <<32>> \o body)
        is_hallel == \/ In(Lower(TxtHALLEL), combined_text)
                     \/ In(Lower(TxtHallel), combined_text)
    IN IF ~is_hallel THEN FALSE
       ELSE IF In(TxtHanzomonTen, body) \/ In(TxtHanzomon, Lower(body)) THEN FALSE
       ELSE IF In(TxtShibuyaTen, body) \/ In(TxtShibuya, Lower(body)) THEN TRUE
       ELSE FALSE

(* the keywords of a list that occur in the body *)
Matched(keywords, body) == {k \in DOMAIN keywords : In(keywords[k], body)}

(* _determine_action_type with the booking keywords tested first *)
determine_action_type_booking_first(body) ==
    IF Matched(booking_keywords, body) # {} THEN TxtBooking
    ELSE IF Matched(cancellation_keywords, body) # {} THEN TxtCancellation
    ELSE IF In(TxtCancelKana, body) \/ In(TxtCancel, Lower(body)) THEN TxtCancellation
    ELSE IF In(TxtYoyaku, body) /\ (In(TxtArigatou, body) \/ In(TxtUketamawari, body))
    THEN TxtBooking
    ELSE None

(* _determine_action_type *)
_determine_action_type(body) ==
    IF Matched(cancellation_keywords, body) # {} THEN TxtCancellation
    ELSE IF Matched(booking_keywords, body) # {} THEN TxtBooking
    ELSE IF In(TxtCancelKana, body) \/ In(TxtCancel, Lower(body)) THEN TxtCancellation
    ELSE IF In(TxtYoyaku, body) /\ (In(TxtArigatou, body) \/ In(TxtUketamawari, body))
    THEN TxtBooking
    ELSE None

(* _extract_customer_name: re.search(r'(.*?)\s*様', body).  The leftmost   *)
(* match ends at the first 様; the whitespace before it goes to \s*, and   *)
(* group 1 is the rest of that line before the whitespace ('.' does not    *)
(* match a newline).                                                       *)
_extract_customer_name(body) ==
    LET samas == {r \in DOMAIN body : body[r] = ChSama}
    IN IF samas = {} THEN TxtFumei
       ELSE LET r == Least(samas)
                solid == {j \in 1..(r - 1) : ~IsSpace(body[j])}
                q == IF solid = {} THEN 1 ELSE Greatest(solid) + 1
                breaks == {j \in 1..(q - 1) : body[j] = Newline}
                p == IF breaks = {} THEN 1 ELSE Greatest(breaks) + 1
            IN Strip(SubSeq(body, p, q - 1))

(* _extract_date_time: <<>> for None *)
_extract_date_time(body) ==
    LET found_date == Search(body, DateAt)
        found_time == Search(body, TimeAt)
    IN IF found_date = <<>> THEN <<>>
       ELSE IF found_time = <<>> THEN <<>>
       ELSE LET year == ToInt(found_date[1])
                month == ToInt(found_date[2])
                day == ToInt(found_date[3])
                start_hour == ToInt(found_time[1])
                start_minute == ToInt(found_time[2])
                end_hour == ToInt(found_time[3])
                end_minute == ToInt(found_time[4])
            IN <<[date |-> ZeroPad(ToDigits(year), 4) \o <<ChHyphen>>
                             \o ZeroPad(ToDigits(month), 2) \o <<ChHyphen>>
                             \o ZeroPad(ToDigits(day), 2),
                  start_time |-> ZeroPad(ToDigits(start_hour), 2) \o <<ChColon>>
                                   \o ZeroPad(ToDigits(start_minute), 2),
                  end_time |-> ZeroPad(ToDigits(end_hour), 2) \o <<ChColon>>
                                 \o ZeroPad(ToDigits(end_minute), 2),
                  duration |-> (end_hour * 60 + end_minute)
                                 - (start_hour * 60 + start_minute)]>>

(* r'(渋谷店\s*STUDIO\s*[⑥①②③④⑤⑦⑧⑨⑩]*\s*\(\d+\))' at i: the index    *)
(* after the match, 0 if there is no match at i                            *)
StudioEndAt(text, i) ==
    LET a == SkipSpace(text, i + Len(TxtShibuyaTen))
        b == SkipSpace(text, Skip(text, SkipSpace(text, a + Len(TxtSTUDIO)),
                                  LAMBDA c : c \in Circled))
        c == Skip(text, b + 1, IsDigit)
    IN IF /\ LitAt(text, i, TxtShibuyaTen)
          /\ LitAt(text, a, TxtSTUDIO)
          /\ At(text, b) = ChOpen
          /\ c > b + 1
          /\ At(text, c) = ChClose
       THEN c + 1
       ELSE 0

(* _extract_studio_info *)
_extract_studio_info(body) ==
    LET starts == {i \in DOMAIN body : StudioEndAt(body, i) # 0}
    IN IF starts # {}
       THEN Strip(SubSeq(body, Least(starts), StudioEndAt(body, Least(starts)) - 1))
       ELSE IF In(TxtSTUDIO, body) THEN TxtSTUDIO
       ELSE TxtFumei

(* _calculate_confidence *)
_calculate_confidence(action_type, body) ==
    LET keyed == IF action_type = TxtBooking
                 THEN FloatAddTimes(F_0_5, F_0_1, Cardinality(Matched(booking_keywords, body)))
                 ELSE IF action_type = TxtCancellation
                 THEN FloatAddTimes(F_0_5, F_0_15,
                                    Cardinality(Matched(cancellation_keywords, body)))
                 ELSE F_0_5
        dated == IF Search(body, DateAt) # <<>> THEN FloatAdd(keyed, F_0_1) ELSE keyed
        timed == IF Search(body, TimeAt) # <<>> THEN FloatAdd(dated, F_0_1) ELSE dated
        branded == IF In(TxtHALLEL, body) THEN FloatAdd(timed, F_0_1) ELSE timed
    IN FloatMin(branded, F_1_0)

(* classify_email: <<ReservationInfo>>, or <<>> for None *)
classify_email(subject, body) ==
    IF ~_is_hallel_email(subject, body) THEN <<>>
    ELSE LET action_type == _determine_action_type(body)
             date_info == _extract_date_time(body)
         IN IF action_type = None THEN <<>>
            ELSE IF date_info = <<>> THEN <<>>
            ELSE <<[action_type |-> action_type,
                    date |-> date_info[1].date,
                    start_time |-> date_info[1].start_time,
                    end_time |-> date_info[1].end_time,
                    customer_name |-> _extract_customer_name(body),
                    studio |-> _extract_studio_info(body),
                    duration_minutes |-> date_info[1].duration,
                    confidence |-> _calculate_confidence(action_type, body),
                    raw_text |-> body]>>

(* ------------------------------- inputs -------------------------------- *)
ManualData(date, start, end, customer_name) ==
    [EmptyDict EXCEPT !["date"] = date, !["start"] = start, !["end"] = end,
                      !["customer_name"] = customer_name]

ProcessData(action_type, date, start_time, end_time) ==
    [EmptyDict EXCEPT !["action_type"] = action_type, !["date"] = date,
                      !["start_time"] = start_time, !["end_time"] = end_time]

GasRecord(date, start, end, customer_name, is_cancellation) ==
    [EmptyDict EXCEPT !["date"] = date, !["start"] = start, !["end"] = end,
                      !["customer_name"] = customer_name, !["type"] = TxtGmail,
                      !["is_cancellation"] = is_cancellation]

(* noreply@em.hacomono.jp *)
TxtSender == <<110, 111, 114, 101, 112, 108, 121, 64, 101, 109, 46, 104, 97, 99, 111, 109, 111, 110, 111, 46, 106, 112>>

(* a message of the sender the query asks for *)
Message(id, subject, body) ==
    [id |-> id, subject |-> subject, sender |-> TxtSender, get_ok |-> TRUE, body |-> body]

(* a record that lacks one of its fields *)
Without(record, key) == [record EXCEPT ![key] = IF key \in NumKeys THEN AbsentN ELSE Absent]

(* a record with null in one of its fields *)
WithNull(record, key) == [record EXCEPT ![key] = None]

(* sequences of length 0..n over a set *)
RECURSIVE SeqsUpTo(_, _)
SeqsUpTo(S, n) ==
    IF n = 0 THEN {<<>>}
    ELSE LET shorter == SeqsUpTo(S, n - 1)
         IN shorter \cup {Append(q, x) : q \in {t \in shorter : Len(t) = n - 1}, x \in S}

(* HALLEL reservation *)
SubjectReservation == <<72, 65, 76, 76, 69, 76, 32, 114, 101, 115, 101, 114, 118, 97, 116, 105, 111, 110>>

(* HALLEL cancel *)
SubjectCancel == <<72, 65, 76, 76, 69, 76, 32, 99, 97, 110, 99, 101, 108>>

(* m1, m2, m3, m4 *)
Id1 == <<109, 49>>

Id2 == <<109, 50>>

Id3 == <<109, 51>>

Id4 == <<109, 52>>

(* HALLEL 渋谷店 / Tanaka 様 / 2025年11月2日 10:00〜11:00 *)
BodyTanaka == <<72, 65, 76, 76, 69, 76, 32, 28171, 35895, 24215, 10, 84, 97, 110, 97, 107, 97, 32, 27096, 10, 50, 48, 50, 53, 24180, 49, 49, 26376, 50, 26085, 32, 49, 48, 58, 48, 48, 12316, 49, 49, 58, 48, 48>>

(* HALLEL 渋谷店 / お名前：Tanaka / 2025/11/02 10:00-11:00 *)
BodyLabelled == <<72, 65, 76, 76, 69, 76, 32, 28171, 35895, 24215, 10, 12362, 21517, 21069, 65306, 84, 97, 110, 97, 107, 97, 10, 50, 48, 50, 53, 47, 49, 49, 47, 48, 50, 32, 49, 48, 58, 48, 48, 45, 49, 49, 58, 48, 48>>

(* HALLEL 渋谷店 / 2025年11月2日 10:00〜11:00 *)
BodyNameless == <<72, 65, 76, 76, 69, 76, 32, 28171, 35895, 24215, 10, 50, 48, 50, 53, 24180, 49, 49, 26376, 50, 26085, 32, 49, 48, 58, 48, 48, 12316, 49, 49, 58, 48, 48>>

(* Tanaka 様 / 2025年11月2日 *)
BodyTimeless == <<72, 65, 76, 76, 69, 76, 32, 28171, 35895, 24215, 10, 84, 97, 110, 97, 107, 97, 32, 27096, 10, 50, 48, 50, 53, 24180, 49, 49, 26376, 50, 26085>>

(* HALLEL 渋谷店 *)
LineStore == <<72, 65, 76, 76, 69, 76, 32, 28171, 35895, 24215>>

(* the body of a notification for a booking: the store, the customer with *)
(* the honorific (no such line for the name N/A, which is what the         *)
(* connector gives a body without a name), then the date written           *)
(* YYYY年MM月DD日 and the time range                                        *)
MailBody(date, start, end, customer_name) ==
    JoinLines(<<LineStore>>
              \o (IF customer_name = TxtNA THEN <<>>
                  ELSE <<customer_name \o <<32, ChSama>>>>)
              \o <<SubSeq(date, 1, 4) \o <<ChNen>> \o SubSeq(date, 6, 7) \o <<ChGatsu>>
                     \o SubSeq(date, 9, 10) \o <<ChNichi, 32>>
                     \o start \o <<ChWaveDash>> \o end>>)

Mail(id, subject, date, start, end, customer_name) ==
    Message(id, subject, MailBody(date, start, end, customer_name))

BookingMail(id, date, start, end, customer_name) ==
    Mail(id, SubjectReservation, date, start, end, customer_name)

CancelMail(id, date, start, end, customer_name) ==
    Mail(id, SubjectCancel, date, start, end, customer_name)

(* a message whose messages().get fails *)
Unreadable(message) == [message EXCEPT !.get_ok = FALSE]

MessageIds == {Id1, Id2}

MailNames == {TxtTanaka, TxtNA}

(* the requests the specification Spec draws from *)
GenManual == {ManualData(D1, s, E1, TxtTanaka) : s \in Starts}
             \cup {ManualData(D2, S1, E1, TxtTanaka)}

GenProcess == {ProcessData(a, D1, S1, E1) : a \in {TxtBooking, TxtCancellation}}

GenGas == {GasRecord(D1, S1, E1, c, PyFalse) : c \in {TxtTanaka, Absent, None}}
          \cup {GasRecord(D1, S1, E1, TxtTanaka, PyTrue)}

(* the mails an inbox of the model holds: a booking mail, the cancellation *)
(* mail for it, a second booking mail for the same booking in another      *)
(* layout, and a message whose fetch fails                                 *)
GenMessages ==
    {Message(Id1, SubjectReservation, BodyTanaka),
     Message(Id2, SubjectCancel, BodyTanaka),
     Message(Id3, SubjectReservation, BodyLabelled),
     Unreadable(Message(Id4, SubjectReservation, BodyTanaka))}

(* a list without a repeated element *)
NoRepeat(list) == \A i, j \in DOMAIN list : i # j => list[i] # list[j]

(* what messages().list gives: up to MaxBatch messages, none of them twice *)
Inboxes == {messages \in SeqsUpTo(GenMessages, MaxBatch) : NoRepeat(messages)}

(* get_recent_reservations on each inbox of the model *)
RecentReservations ==
    [messages \in Inboxes |-> get_recent_reservations("ok", TRUE, messages)]

(* the notifications of the bookings of the model, readable or not *)
Mails ==
    LET readable == {Mail(id, subject, date, start, end, customer_name) :
                        id \in {Id1, Id2, Id3, Id4}, subject \in {SubjectReservation, SubjectCancel},
                        date \in Dates, start \in Starts, end \in Ends,
                        customer_name \in MailNames}
    IN readable \cup {Unreadable(message) : message \in readable} \cup GenMessages

(* get_recent_reservations on an inbox that holds one message *)
MailRecords == [message \in Mails |-> get_recent_reservations("ok", TRUE, <<message>>)]

(* get_recent_reservations on an inbox of several messages: the loop       *)
(* handles each message on its own, so the records are those of the        *)
(* messages, in the order of the list                                      *)
InboxRecords(messages) == Concat([k \in DOMAIN messages |-> MailRecords[messages[k]]])

(* ------------------------------ actions -------------------------------- *)
(* a handler's outcome becomes the next state; lim caps the log's serial   *)
Commit(out, lim) ==
    /\ TotalSlots(out.db) <= MaxSlots
    /\ NextSerial(out.logs) <= lim + 1
    /\ reservations_db' = out.db
    /\ reservation_judgment_logs' = out.logs
    /\ UNCHANGED <<threads, mailvars>>

AddReservation(inputs, lim) ==
    \/ \E cookie \in Cookies \ {"valid"}, data \in {CHOOSE x \in inputs : TRUE} :
          Commit(add_reservation(reservations_db, reservation_judgment_logs, cookie, data), lim)
    \/ \E data \in inputs :
          Commit(add_reservation(reservations_db, reservation_judgment_logs, "valid", data), lim)

DeleteReservation(lim) ==
    \/ \E cookie \in Cookies \ {"valid"} :
          Commit(delete_reservation_api(reservations_db, reservation_judgment_logs,
                                        cookie, D1, 0), lim)
    \/ \E date \in Dates \cup {None}, index \in 0..MaxSlots :
          Commit(delete_reservation_api(reservations_db, reservation_judgment_logs,
                                        "valid", date, index), lim)

ProcessEmail(inputs, lim) ==
    \E data \in inputs :
        Commit(process_email(reservations_db, reservation_judgment_logs, data), lim)

GasWebhook(inputs, lim) ==
    \/ \E auth_header \in {"wrong", "none"} :
          Commit(gas_webhook(reservations_db, reservation_judgment_logs,
                             auth_header, TRUE, <<>>), lim)
    \/ Commit(gas_webhook(reservations_db, reservation_judgment_logs,
                          GasSecret, FALSE, <<>>), lim)
    \/ \E reservations \in SeqsUpTo(inputs, MaxBatch) :
          Commit(gas_webhook(reservations_db, reservation_judgment_logs,
                             GasSecret, TRUE, reservations), lim)
    \/ \E reservation \in inputs :
          Commit(gas_webhook(reservations_db, reservation_judgment_logs, GasSecret, TRUE,
                             <<reservation, Without(reservation, "date")>>), lim)

(* mail sync: the handler on what FastGmailSync finds in the inbox *)
SyncGmail(inboxes, lim) ==
    \/ \E cookie \in Cookies \ {"valid"} :
          Commit(sync_gmail_reservations(reservations_db, reservation_judgment_logs,
                                         cookie, "ok", <<>>), lim)
    \/ \E env \in {"disabled", "missing_env", "init_raises"} :
          Commit(sync_gmail_reservations(reservations_db, reservation_judgment_logs,
                                         "valid", env, <<>>), lim)
    \/ \E service \in {"none", "ok"}, list_ok \in BOOLEAN :
          /\ ~(service = "ok" /\ list_ok)
          /\ Commit(sync_gmail_reservations(reservations_db, reservation_judgment_logs,
                        "valid", "ok",
                        get_recent_reservations(service, list_ok, <<>>)), lim)
    \/ \E messages \in inboxes :
          Commit(sync_gmail_reservations(reservations_db, reservation_judgment_logs,
                                         "valid", "ok", RecentReservations[messages]), lim)

AddLog(lim) ==
    \E cookie \in Cookies, message \in {<<>>, <<32>>, <<110, 111, 116, 101>>} :
        Commit(add_log(reservations_db, reservation_judgment_logs, cookie, message), lim)

ClearLogs(lim) ==
    \E cookie \in Cookies :
        Commit(clear_logs(reservations_db, reservation_judgment_logs, cookie), lim)

ExportLogs(lim) ==
    \E cookie \in Cookies :
        Commit(export_logs(reservations_db, reservation_judgment_logs, cookie), lim)

(* ---------------------------- specifications --------------------------- *)
Threads == {1, 2}

Idle == [pc |-> "idle", path |-> "none", reservation |-> <<>>, duplicate |-> FALSE]

(* no mail at hand *)
NoMail == [stage |-> "none"]

(* the reservations table after init_database: no rows, no id given out   *)
(* yet (AUTOINCREMENT never gives an id twice), no connection left open    *)
EmptyTable == [rows |-> <<>>, seq |-> 0, locked |-> FALSE]

(* A file of the working directory: whether it exists, its size in bytes,  *)
(* and, when its bytes are the JSON text of a dict (valid), that dict.     *)
(* no file of that name *)
NoFile == [exists |-> FALSE, size |-> 0, valid |-> FALSE, reservations |-> <<>>]

(* the seconds of the clock at which the clients call backup_to_json; a    *)
(* backup file is named after its second                                   *)
BackupSeconds == 1..Cardinality(Threads)

(* no backup has been written *)
NoBackups == [now \in BackupSeconds |-> NoFile]

Init ==
    /\ reservations_db = <<>>
    /\ reservation_judgment_logs = <<>>
    /\ threads = [t \in Threads |-> Idle]
    /\ classifier = NoMail
    /\ parser = NoMail
    /\ database = EmptyTable
    /\ backup_files = NoBackups

(* the schedule store under every ingestion path *)
Next ==
    \/ AddReservation(GenManual, MaxLogged)
    \/ DeleteReservation(MaxLogged)
    \/ ProcessEmail(GenProcess, MaxLogged)
    \/ GasWebhook(GenGas, MaxLogged)
    \/ SyncGmail(Inboxes, MaxLogged)

Spec == Init /\ [][Next]_vars

(* the judgment log under every operation that writes it; the log runs    *)
(* from empty past its limit                                               *)
LogInboxes == {messages \in Inboxes : \A k \in DOMAIN messages : messages[k].id = Id1}

NextLog ==
    \/ AddLog(LogLimit + MaxLogOps)
    \/ ClearLogs(LogLimit + MaxLogOps)
    \/ ExportLogs(LogLimit + MaxLogOps)
    \/ SyncGmail(LogInboxes, LogLimit + MaxLogOps)

SpecLog == Init /\ [][NextLog]_vars

(* ----------------------------- mail inputs ---------------------------- *)
(* gmail_auto *)
TxtGmailAuto == <<103, 109, 97, 105, 108, 95, 97, 117, 116, 111>>

(* the elements of a list at the indices of a set, in the list's order *)
RECURSIVE Pick(_, _)
Pick(list, indices) ==
    IF indices = {} THEN <<>>
    ELSE LET i == Least(indices) IN <<list[i]>> \o Pick(list, indices \ {i})

(* the sublists of a list with at most n elements *)
SublistsUpTo(list, n) ==
    {Pick(list, indices) : indices \in {s \in SUBSET DOMAIN list : Cardinality(s) <= n}}

(* HALLELよりご予約確認 *)
SubjectBrand ==
    <<72, 65, 76, 76, 69, 76, 12424, 12426, 12372, 20104, 32004, 30906,
      35469>>

(* ご予約確認 *)
SubjectPlain == <<12372, 20104, 32004, 30906, 35469>>

(* 田中 様 *)
LineName == <<30000, 20013, 32, 27096>>

(* 田中<U+00A0>様: a no-break space before the honorific *)
LineNameNbsp == <<30000, 20013, 160, 27096>>

(* 渋谷店 *)
LineShibuyaTen == <<28171, 35895, 24215>>

(* 半蔵門店 *)
LineHanzomonTen == <<21322, 34101, 38272, 24215>>

(* Shibuya studio *)
LineShibuya ==
    <<83, 104, 105, 98, 117, 121, 97, 32, 115, 116, 117, 100, 105, 111>>

(* Hanzomon studio *)
LineHanzomon ==
    <<72, 97, 110, 122, 111, 109, 111, 110, 32, 115, 116, 117, 100, 105,
      111>>

(* 2025年11月02日 *)
LineDate == <<50, 48, 50, 53, 24180, 49, 49, 26376, 48, 50, 26085>>

(* ２０２５年１１月０２日: fullwidth digits *)
LineDateWide == <<65298, 65296, 65298, 65301, 24180, 65297, 65297, 26376, 65296, 65298, 26085>>

(* 渋谷店<U+00A0>STUDIO<U+00A0>⑥<U+00A0>(1) *)
LineStudioNbsp ==
    <<28171, 35895, 24215, 160, 83, 84, 85, 68, 73, 79, 160, 9317, 160, 40, 49, 41>>

(* 10:00~11:00 *)
LineTime == <<49, 48, 58, 48, 48, 126, 49, 49, 58, 48, 48>>

(* より、ご予約をいただきました *)
LineScenarioA ==
    <<12424, 12426, 12289, 12372, 20104, 32004, 12434, 12356, 12383,
      12384, 12365, 12414, 12375, 12383>>

(* ご予約を承ります *)
LineUketamawarimasu ==
    <<12372, 20104, 32004, 12434, 25215, 12426, 12414, 12377>>

(* Cancel *)
LineCancelAscii == <<67, 97, 110, 99, 101, 108>>

Subjects == {SubjectBrand, SubjectPlain}

NameLines == {<<>>, <<LineName>>}

BrandLines == {<<>>, <<TxtHALLEL>>, <<TxtHallel>>}

LocationLines == {<<>>, <<LineShibuyaTen>>, <<LineHanzomonTen>>,
                  <<LineShibuyaTen, LineHanzomonTen>>, <<LineShibuya>>,
                  <<LineShibuya, LineHanzomon>>}

DateTimeLines == {<<LineDate, LineTime>>, <<LineDate>>, <<LineTime>>}

(* the phrases a body may carry: keywords of both lists and phrases that   *)
(* only the secondary heuristics recognise                                 *)
Phrases ==
    <<booking_keywords[1], booking_keywords[2], booking_keywords[3], booking_keywords[5],
      cancellation_keywords[1], cancellation_keywords[2], cancellation_keywords[4],
      LineCancelAscii, LineScenarioA, LineUketamawarimasu>>

(* bodies whose name and studio lines are spaced with no-break spaces, with *)
(* the date in ASCII or in fullwidth digits                                 *)
WideBodies ==
    {JoinLines(<<LineNameNbsp>> \o b \o <<LineStudioNbsp>> \o <<d, LineTime>> \o p) :
        b \in {<<>>, <<TxtHALLEL>>}, d \in {LineDate, LineDateWide},
        p \in SublistsUpTo(Phrases, MaxPhrases)}

(* a body: name, brand, store, date and time, then up to MaxPhrases phrases *)
Bodies ==
    {JoinLines(n \o b \o l \o d \o p) :
        n \in NameLines, b \in BrandLines, l \in LocationLines, d \in DateTimeLines,
        p \in SublistsUpTo(Phrases, MaxPhrases)}
    \cup WideBodies

(* --------------------------- classifier run ---------------------------- *)
InitClassify ==
    /\ reservations_db = <<>>
    /\ reservation_judgment_logs = <<>>
    /\ threads = [t \in Threads |-> Idle]
    /\ parser = NoMail
    /\ database = EmptyTable
    /\ backup_files = NoBackups
    /\ classifier \in {[stage |-> "received", subject |-> s, body |-> b] :
                           s \in Subjects, b \in Bodies}

Classify ==
    /\ classifier.stage = "received"
    /\ classifier' = [stage |-> "classified", subject |-> classifier.subject,
                      body |-> classifier.body,
                      result |-> classify_email(classifier.subject, classifier.body)]
    /\ UNCHANGED <<reservations_db, reservation_judgment_logs, threads, parser, database,
                   backup_files>>

(* ------------------------ fetch_and_parse_reservations ------------------ *)
(* A message of the list get_recent_emails returned: its id and what       *)
(* get_email_content gives for it, <<>> for None.                          *)
FetchedMessage(id, content) == [id |-> id, content |-> content]

(* the test of line 318 with >= in the place of > *)
EmittedAtThreshold(reservation_info) ==
    reservation_info # <<>> /\ ~FloatLess(reservation_info[1].confidence, F_0_7)

(* reservation_info and reservation_info.confidence > 0.7 *)
Emitted(reservation_info) ==
    reservation_info # <<>> /\ FloatLess(F_0_7, reservation_info[1].confidence)

(* the dict appended for a message *)
reservation_data(reservation_info, message, email_content) ==
    [action_type |-> reservation_info.action_type,
     date |-> reservation_info.date,
     start |-> reservation_info.start_time,
     end |-> reservation_info.end_time,
     customer_name |-> reservation_info.customer_name,
     studio |-> reservation_info.studio,
     source |-> TxtGmailAuto,
     confidence |-> reservation_info.confidence,
     message_id |-> message.id,
     email_subject |-> email_content.subject]

(* the body of the loop for a message whose content was read and          *)
(* classified: the event appended and the call of                          *)
(* label_processed_reservation                                             *)
FetchStep(acc, message, reservation_info, has_labeler) ==
    IF Emitted(reservation_info)
    THEN [reservations |-> Append(acc.reservations,
              reservation_data(reservation_info[1], message, message.content[1])),
          labelled |-> IF has_labeler
                       THEN Append(acc.labelled,
                                   <<message.id, reservation_info[1].action_type,
                                     reservation_info[1].customer_name>>)
                       ELSE acc.labelled]
    ELSE acc

(* the loop over messages[:20]; classify_email is called once a message *)
RECURSIVE FetchLoop(_, _, _)
FetchLoop(messages, has_labeler, acc) ==
    IF messages = <<>> THEN acc
    ELSE LET message == Head(messages)
         IN IF message.content = <<>>
            THEN FetchLoop(Tail(messages), has_labeler, acc)
            ELSE FetchLoop(Tail(messages), has_labeler,
                     CHOOSE next \in
                         {FetchStep(acc, message, reservation_info, has_labeler) :
                              reservation_info \in
                                  {classify_email(message.content[1].subject,
                                                  message.content[1].body)}} : TRUE)

fetch_and_parse_reservations(messages, has_labeler) ==
    FetchLoop(SubSeq(messages, 1, IF Len(messages) < 20 THEN Len(messages) ELSE 20),
              has_labeler, [reservations |-> <<>>, labelled |-> <<>>])

(* one run of fetch_and_parse_reservations over the received mail *)
FetchAndParse ==
    /\ classifier.stage = "received"
    /\ \E got \in BOOLEAN, has_labeler \in BOOLEAN :
         \E messages \in {<<FetchedMessage(Id1,
                                IF got THEN <<[subject |-> classifier.subject,
                                               body |-> classifier.body]>>
                                ELSE <<>>)>>} :
         \E run \in {fetch_and_parse_reservations(messages, has_labeler)} :
            classifier' = [stage |-> "fetched", subject |-> classifier.subject,
                           body |-> classifier.body, messages |-> messages,
                           has_labeler |-> has_labeler,
                           reservations |-> run.reservations,
                           labelled |-> run.labelled]
    /\ UNCHANGED <<reservations_db, reservation_judgment_logs, threads, parser, database,
                   backup_files>>

NextFetch == FetchAndParse

SpecFetch == InitClassify /\ [][NextFetch]_vars

NextClassify == Classify

SpecClassify == InitClassify /\ [][NextClassify]_vars

(* ----------------------------- mail parser ----------------------------- *)
(* GmailReservationParser.parse_reservation_info of src/gmail_parser.py,   *)
(* on the body of the mail and the year of the clock; of the dict it       *)
(* returns the model keeps date, start and end.                            *)
(* 時 *)
ChJi == 26178

(* 分 *)
ChFun == 20998

(* \d{1,2} followed by [/-], at i: the number of digits taken, 0 if there  *)
(* is no match                                                             *)
DigitsThenSep(text, i) ==
    IF DigitsThen(text, i, ChSlash) > 0 THEN DigitsThen(text, i, ChSlash)
    ELSE DigitsThen(text, i, ChHyphen)

(* a greedy \d{1,2} at i: the number of digits taken, 0 if none *)
DigitsUpTo2(text, i) ==
    IF IsDigit(At(text, i)) /\ IsDigit(At(text, i + 1)) THEN 2
    ELSE IF IsDigit(At(text, i)) THEN 1
    ELSE 0

(* r'(\d{4})[/-](\d{1,2})[/-](\d{1,2})' at i: <<year, month, day>>, <<>>    *)
(* if there is no match at i                                               *)
FullDateAt(text, i) ==
    LET m == DigitsThenSep(text, i + 5)
        d == DigitsUpTo2(text, i + 5 + m + 1)
    IN IF /\ \A j \in i..(i + 3) : IsDigit(At(text, j))
          /\ At(text, i + 4) \in {ChSlash, ChHyphen}
          /\ m > 0
          /\ d > 0
       THEN <<SubSeq(text, i, i + 3), SubSeq(text, i + 5, i + 4 + m),
              SubSeq(text, i + 6 + m, i + 5 + m + d)>>
       ELSE <<>>

(* r'(\d{1,2})[/-](\d{1,2})' at i: <<month, day>>, <<>> if no match at i    *)
ShortDateAt(text, i) ==
    LET m == DigitsThenSep(text, i)
        d == DigitsUpTo2(text, i + m + 1)
    IN IF m > 0 /\ d > 0
       THEN <<SubSeq(text, i, i + m - 1), SubSeq(text, i + m + 1, i + m + d)>>
       ELSE <<>>

(* r'(\d{1,2})月(\d{1,2})日' at i: <<month, day>>, <<>> if no match at i    *)
KanjiDateAt(text, i) ==
    LET m == DigitsThen(text, i, ChGatsu)
        d == DigitsThen(text, i + m + 1, ChNichi)
    IN IF m > 0 /\ d > 0
       THEN <<SubSeq(text, i, i + m - 1), SubSeq(text, i + m + 1, i + m + d)>>
       ELSE <<>>

(* the date of the first pattern with a match, from its leftmost match;    *)
(* <<>> for None                                                           *)
date_found(body, current_year) ==
    LET full == Search(body, FullDateAt)
        short == Search(body, ShortDateAt)
        kanji == Search(body, KanjiDateAt)
        dated(year, md) ==
            year \o <<ChHyphen>> \o ZeroPad(md[1], 2) \o <<ChHyphen>> \o ZeroPad(md[2], 2)
    IN IF full # <<>> THEN dated(full[1], Tail(full))
       ELSE IF short # <<>> THEN dated(ToDigits(current_year), short)
       ELSE IF kanji # <<>> THEN dated(ToDigits(current_year), kanji)
       ELSE <<>>

(* hour.zfill(2) + ':' + minute.zfill(2) *)
time_str(hour, minute) == ZeroPad(hour, 2) \o <<ChColon>> \o ZeroPad(minute, 2)

(* re.findall(r'(\d{1,2}):(\d{2})', text) from i on, as time strings *)
RECURSIVE ClockTimes(_, _)
ClockTimes(text, i) ==
    IF i > Len(text) THEN <<>>
    ELSE LET a == DigitsThen(text, i, ChColon)
         IN IF a > 0 /\ IsDigit(At(text, i + a + 1)) /\ IsDigit(At(text, i + a + 2))
            THEN <<time_str(SubSeq(text, i, i + a - 1), SubSeq(text, i + a + 1, i + a + 2))>>
                 \o ClockTimes(text, i + a + 3)
            ELSE ClockTimes(text, i + 1)

(* re.findall(r'(\d{1,2})時(\d{1,2})分?', text) from i on, as time strings  *)
RECURSIVE KanjiTimes(_, _)
KanjiTimes(text, i) ==
    IF i > Len(text) THEN <<>>
    ELSE LET a == DigitsThen(text, i, ChJi)
             b == DigitsUpTo2(text, i + a + 1)
             fun == IF At(text, i + a + 1 + b) = ChFun THEN 1 ELSE 0
         IN IF a > 0 /\ b > 0
            THEN <<time_str(SubSeq(text, i, i + a - 1), SubSeq(text, i + a + 1, i + a + b))>>
                 \o KanjiTimes(text, i + a + 1 + b + fun)
            ELSE KanjiTimes(text, i + 1)

(* the times of the body: those of the first pattern, then those of the    *)
(* second                                                                  *)
times_found(body) == ClockTimes(body, 1) \o KanjiTimes(body, 1)

(* text.split(':')[k] for k = 0, 1 of a text with one colon *)
SplitColon(text, k) ==
    LET colon == Least({i \in DOMAIN text : text[i] = ChColon})
    IN IF k = 0 THEN SubSeq(text, 1, colon - 1) ELSE SubSeq(text, colon + 1, Len(text))

(* the end assumed for a lone start time: one hour and thirty minutes on   *)
end_time(start_time) ==
    LET start_hour == ToInt(SplitColon(start_time, 0))
        start_minute == ToInt(SplitColon(start_time, 1))
        end_hour == IF start_minute + 30 >= 60 THEN start_hour + 2 ELSE start_hour + 1
        end_minute == IF start_minute + 30 >= 60 THEN start_minute + 30 - 60
                      ELSE start_minute + 30
    IN ZeroPad(ToDigits(end_hour), 2) \o <<ChColon>> \o ZeroPad(ToDigits(end_minute), 2)

(* parse_reservation_info: <<[date, start, end]>>, or <<>> for None *)
parse_reservation_info(body, current_year) ==
    LET date == date_found(body, current_year)
        times == times_found(body)
    IN IF date # <<>> /\ times # <<>>
       THEN <<[date |-> date,
               start |-> times[1],
               end |-> IF Len(times) > 1 THEN times[2] ELSE end_time(times[1])]>>
       ELSE <<>>

(* ---------------------------- parser inputs ---------------------------- *)
(* 2025/11/02 *)
LineSlashDate == <<50, 48, 50, 53, 47, 49, 49, 47, 48, 50>>

(* ２０２５/１１/０２: fullwidth digits *)
LineWideDate == <<65298, 65296, 65298, 65301, 47, 65297, 65297, 47, 65296, 65298>>

(* 11-2 *)
LineShortDate == <<49, 49, 45, 50>>

(* 11月2日 *)
LineKanjiDate == <<49, 49, 26376, 50, 26085>>

(* 12時30分 *)
LineKanjiTime == <<49, 50, 26178, 51, 48, 20998>>

(* 13:00 *)
LineSecondTime == <<49, 51, 58, 48, 48>>

ParserDateLines ==
    {<<>>, <<LineSlashDate>>, <<LineWideDate>>, <<LineShortDate>>, <<LineKanjiDate>>}

(* every time of day, written HH:MM *)
ClockLines ==
    {<<ZeroPad(ToDigits(h), 2) \o <<ChColon>> \o ZeroPad(ToDigits(m), 2)>> :
        h \in 0..23, m \in 0..59}

(* what follows the first time: nothing, or a second time in either form   *)
SecondTimeLines == {<<>>, <<LineSecondTime>>, <<LineKanjiTime>>}

ParserBodies ==
    {JoinLines(d \o t \o u) : d \in ParserDateLines, t \in ClockLines, u \in SecondTimeLines}

Years == {2025, 2026}

(* ----------------------------- parser run ------------------------------ *)
InitParse ==
    /\ reservations_db = <<>>
    /\ reservation_judgment_logs = <<>>
    /\ threads = [t \in Threads |-> Idle]
    /\ classifier = NoMail
    /\ database = EmptyTable
    /\ backup_files = NoBackups
    /\ parser \in {[stage |-> "received", body |-> b, year |-> y] :
                       b \in ParserBodies, y \in Years}

Parse ==
    /\ parser.stage = "received"
    /\ parser' = [stage |-> "parsed", body |-> parser.body, year |-> parser.year,
                  result |-> parse_reservation_info(parser.body, parser.year)]
    /\ UNCHANGED <<reservations_db, reservation_judgment_logs, threads, classifier,
                   database, backup_files>>

NextParse == Parse

SpecParse == InitParse /\ [][NextParse]_vars

(* ------------------------- relational backend ------------------------- *)
(* ReservationDB of src/database.py.  The table is the sequence of its     *)
(* rows in insertion order, with the last id AUTOINCREMENT gave out.       *)
(* A backup file is the dict get_all_reservations returns, kept as the     *)
(* sequence of its (date, slots) items in key order; json.dump and         *)
(* json.load keep strings, integers and null as they are.  The columns     *)
(* declared NOT NULL hold texts; email_subject and message_id hold a text  *)
(* or None (NULL).                                                         *)
(* the order of two TEXT values under SQLite's BINARY collation: the order *)
(* of their UTF-8 bytes, which is the order of their code points           *)
TextLess(a, b) ==
    LET n == IF Len(a) < Len(b) THEN Len(a) ELSE Len(b)
        differ == {i \in 1..n : a[i] # b[i]}
    IN IF differ = {} THEN Len(a) < Len(b)
       ELSE a[Least(differ)] < b[Least(differ)]

(* the INSERT of add_reservation fails (sqlite3.IntegrityError) when one   *)
(* of the four columns declared NOT NULL is given None                     *)
IntegrityError(date, start_time, end, reservation_type) ==
    None \in {date, start_time, end, reservation_type}

(* add_reservation and delete_reservation have no try/finally: when the    *)
(* statement raises, commit() and close() are skipped and the connection   *)
(* stays open until the interpreter frees it.  The connection of a failed  *)
(* INSERT has begun its transaction and holds the write lock of the        *)
(* database file: locked.  A statement that writes then waits for the      *)
(* lock and raises sqlite3.OperationalError (database is locked) when the  *)
(* busy timeout ends; it takes no lock itself.  SELECTs are not held up.   *)
OperationalError(table) == table.locked

(* what the cursor.execute of add_reservation raises: the lock is asked    *)
(* for before the row is looked at                                         *)
AddRaises(table, date, start_time, end, reservation_type) ==
    IF OperationalError(table) THEN "OperationalError"
    ELSE IF IntegrityError(date, start_time, end, reservation_type) THEN "IntegrityError"
    ELSE "none"

(* ReservationDB.add_reservation: INSERT of one row.  A failed INSERT      *)
(* leaves the rows and the AUTOINCREMENT counter as they were; the one     *)
(* that failed on a NOT NULL column leaves the database locked             *)
ReservationDB_add_reservation(table, date, start_time, end, reservation_type, group_number, source, email_subject, message_id) ==
    LET raises == AddRaises(table, date, start_time, end, reservation_type)
    IN IF raises = "OperationalError" THEN table
       ELSE IF raises = "IntegrityError" THEN [table EXCEPT !.locked = TRUE]
       ELSE [table EXCEPT
                !.rows = Append(@, [id |-> table.seq + 1, date |-> date,
                                    start_time |-> start_time, end_time |-> end,
                                    reservation_type |-> reservation_type,
                                    group_number |-> group_number, source |-> source,
                                    email_subject |-> email_subject,
                                    message_id |-> message_id]),
                !.seq = @ + 1]

(* ReservationDB.delete_reservation: DELETE ... WHERE id = ?; on a locked  *)
(* database the DELETE raises OperationalError and removes nothing         *)
ReservationDB_delete_reservation(table, reservation_id) ==
    IF OperationalError(table) THEN table
    ELSE [table EXCEPT !.rows = SelectSeq(table.rows, LAMBDA row : row.id # reservation_id)]

(* ReservationDB.reservation_exists: a row with the same date, start_time  *)
(* and reservation_type exists, or, when a message_id is given that is     *)
(* neither None nor empty, a row with that message_id (NULL equals nothing) *)
ReservationDB_reservation_exists(table, date, start_time, reservation_type, message_id) ==
    \E i \in DOMAIN table.rows :
        \/ /\ table.rows[i].date = date
           /\ table.rows[i].start_time = start_time
           /\ table.rows[i].reservation_type = reservation_type
        \/ /\ ~Falsy(message_id)
           /\ table.rows[i].message_id = message_id

(* the rows in ORDER BY date, start_time; rows that tie come in id order *)
RECURSIVE OrderedRows(_)
OrderedRows(rows) ==
    IF rows = <<>> THEN <<>>
    ELSE LET before(a, b) ==
                 \/ TextLess(a.date, b.date)
                 \/ a.date = b.date /\ TextLess(a.start_time, b.start_time)
                 \/ a.date = b.date /\ a.start_time = b.start_time /\ a.id < b.id
             first == CHOOSE i \in DOMAIN rows :
                          \A j \in DOMAIN rows : j = i \/ before(rows[i], rows[j])
         IN <<rows[first]>> \o OrderedRows(Pop(rows, first))

(* the slot dict get_all_reservations builds of a row *)
SlotOfRow(row) ==
    [start |-> row.start_time, end |-> row.end_time, type |-> row.reservation_type,
     group |-> row.group_number, source |-> row.source,
     email_subject |-> row.email_subject, message_id |-> row.message_id]

(* the loop of get_all_reservations over the ordered rows *)
RECURSIVE GroupByDate(_, _)
GroupByDate(rows, reservations_dict) ==
    IF rows = <<>> THEN reservations_dict
    ELSE LET row == Head(rows)
             n == Len(reservations_dict)
         IN IF n > 0 /\ reservations_dict[n].date = row.date
            THEN GroupByDate(Tail(rows),
                     [reservations_dict EXCEPT
                          ![n].reservations = Append(@, SlotOfRow(row))])
            ELSE GroupByDate(Tail(rows),
                     Append(reservations_dict,
                            [date |-> row.date, reservations |-> <<SlotOfRow(row)>>]))

(* ReservationDB.get_all_reservations *)
ReservationDB_get_all_reservations(table) == GroupByDate(OrderedRows(table.rows), <<>>)

(* reservation[key] of migrate_from_memory; Absent stands for the         *)
(* KeyError of a slot that has no such key.  A slot is a dict of the        *)
(* schedule store (all keys, Absent where the dict has none) or a slot of   *)
(* a backup file (the keys get_all_reservations writes)                     *)
Subscript(reservation, key) ==
    IF key \in DOMAIN reservation THEN reservation[key] ELSE Absent

(* reservation.get(key, default) of migrate_from_memory *)
SlotGet(reservation, key, default) ==
    IF key \notin DOMAIN reservation THEN default
    ELSE IF key \in NumKeys THEN GetOrN(reservation, key, default)
    ELSE GetOr(reservation, key, default)

(* line 169 on one slot: reservation['start'] and reservation['type'] are  *)
(* read ("raise" on a KeyError), then reservation_exists is called without *)
(* message_id on the table as it is then                                   *)
MigrateTest(table, date, reservation) ==
    IF Subscript(reservation, "start") = Absent \/ Subscript(reservation, "type") = Absent
    THEN "raise"
    ELSE IF ReservationDB_reservation_exists(table, date, reservation["start"],
                                             reservation["type"], None)
         THEN "exists" ELSE "new"

(* lines 170-177 on one slot: reservation['end'] is read, group and source *)
(* are read with their defaults, add_reservation is called without         *)
(* email_subject and message_id; error names what was raised               *)
MigrateAdd(table, date, reservation) ==
    IF Subscript(reservation, "end") = Absent
    THEN [table |-> table, error |-> "KeyError"]
    ELSE [table |-> ReservationDB_add_reservation(table, date, reservation["start"],
                        reservation["end"], reservation["type"],
                        SlotGet(reservation, "group", 1),
                        SlotGet(reservation, "source", TxtManual), None, None),
          error |-> AddRaises(table, date, reservation["start"], reservation["end"],
                              reservation["type"])]

(* the inner loop of migrate_from_memory over the slots of one date, with  *)
(* no other client at work; an exception ends the call and keeps the rows  *)
(* committed before it (and the lock of a failed INSERT)                   *)
RECURSIVE MigrateSlots(_, _, _)
MigrateSlots(acc, date, reservations) ==
    IF reservations = <<>> \/ acc.raised THEN acc
    ELSE LET reservation == Head(reservations)
             test == MigrateTest(acc.table, date, reservation)
             added == MigrateAdd(acc.table, date, reservation)
         IN IF test = "raise" THEN [acc EXCEPT !.raised = TRUE]
            ELSE IF test = "exists" THEN MigrateSlots(acc, date, Tail(reservations))
            ELSE IF added.error # "none"
            THEN [acc EXCEPT !.table = added.table, !.raised = TRUE]
            ELSE MigrateSlots([acc EXCEPT !.table = added.table,
                                          !.migrated_count = @ + 1],
                              date, Tail(reservations))

RECURSIVE MigrateItems(_, _)
MigrateItems(acc, memory_db) ==
    IF memory_db = <<>> THEN acc
    ELSE MigrateItems(MigrateSlots(acc, Head(memory_db).date, Head(memory_db).reservations),
                      Tail(memory_db))

(* ReservationDB.migrate_from_memory run with no other client at work: the *)
(* table after it, the count it returns, and whether it raised instead of  *)
(* returning                                                               *)
ReservationDB_migrate_from_memory(table, memory_db) ==
    MigrateItems([table |-> table, migrated_count |-> 0, raised |-> FALSE], memory_db)

(* ReservationDB.backup_to_json: the dict it dumps into the file *)
ReservationDB_backup_to_json(table) == ReservationDB_get_all_reservations(table)

(* ReservationDB.restore_from_json, given the dict json.load made of the   *)
(* file                                                                    *)
ReservationDB_restore_from_json(table, reservations_data) ==
    ReservationDB_migrate_from_memory(table, reservations_data)

(* ----------------------------- backup file ----------------------------- *)
(* json.dump(reservations, f, ensure_ascii=False, indent=2) into a file    *)
(* opened with encoding utf-8: the number of bytes it writes.  A character *)
(* is written as its UTF-8 bytes; the quote, the backslash and the control *)
(* characters are escaped                                                  *)
JsonCharSize(c) ==
    IF c \in {34, 92, 8, 9, 10, 12, 13} THEN 2
    ELSE IF c < 32 THEN 6
    ELSE IF c < 128 THEN 1
    ELSE IF c < 2048 THEN 2
    ELSE IF c < 65536 THEN 3
    ELSE 4

(* a text between quotes, or null *)
JsonTextSize(s) ==
    LET RECURSIVE chars(_)
        chars(rest) == IF rest = <<>> THEN 0 ELSE JsonCharSize(Head(rest)) + chars(Tail(rest))
    IN IF s = None THEN 4 ELSE 2 + chars(s)

(* the whole dict, written as {} when empty.  A date: its key at indent 2, *)
(* the list of its slots, the closing bracket on a line of its own.  A     *)
(* slot: the braces on lines of their own at indent 4, one line per key    *)
(* at indent 6 in the order get_all_reservations sets the keys, commas     *)
(* between the lines; group is an integer in decimal digits                *)
JsonSize(reservations) ==
    LET keys == <<"start", "end", "type", "group", "source", "email_subject", "message_id">>
        RECURSIVE integer(_)
        integer(n) == IF n < 0 THEN 1 + integer(-n)
                      ELSE IF n < 10 THEN 1
                      ELSE 1 + integer(n \div 10)
        value(slot, k) == IF k \in NumKeys THEN integer(slot[k]) ELSE JsonTextSize(slot[k])
        line(slot, k) == 1 + 6 + (Len(k) + 2) + 2 + value(slot, k)
        RECURSIVE lines(_, _)
        lines(slot, ks) == IF ks = <<>> THEN 0
                           ELSE line(slot, Head(ks)) + lines(slot, Tail(ks))
        one(slot) == (1 + 4 + 1) + lines(slot, keys) + (Len(keys) - 1) + (1 + 4 + 1)
        RECURSIVE slots(_)
        slots(list) == IF list = <<>> THEN 0 ELSE one(Head(list)) + slots(Tail(list))
        item(i) == (1 + 2) + JsonTextSize(i.date) + 3 + slots(i.reservations)
                   + (Len(i.reservations) - 1) + (1 + 2 + 1)
        RECURSIVE items(_)
        items(dict) == IF dict = <<>> THEN 0 ELSE item(Head(dict)) + items(Tail(dict))
    IN IF reservations = <<>> THEN 2
       ELSE 1 + items(reservations) + (Len(reservations) - 1) + 1 + 1

(* open(backup_file, 'w'): the file is created or cut to no bytes; an      *)
(* empty file is no JSON text                                              *)
Truncated == [exists |-> TRUE, size |-> 0, valid |-> FALSE, reservations |-> <<>>]

(* the with block closes the file: the text json.dump left in the buffer   *)
(* of the file object (the backups here are shorter than the buffer) is    *)
(* written in one piece from the start of the file.  Bytes that another    *)
(* file object wrote beyond its end since the open stay behind it, and the *)
(* file is then no JSON text (json.load: Extra data)                       *)
Written(file, reservations) ==
    IF file.size <= JsonSize(reservations)
    THEN [exists |-> TRUE, size |-> JsonSize(reservations), valid |-> TRUE,
          reservations |-> reservations]
    ELSE [exists |-> TRUE, size |-> file.size, valid |-> FALSE, reservations |-> <<>>]

(* number of slots of a dict of slots per date *)
RECURSIVE SlotsOfItems(_)
SlotsOfItems(memory_db) ==
    IF memory_db = <<>> THEN 0
    ELSE Len(Head(memory_db).reservations) + SlotsOfItems(Tail(memory_db))

(* the slots of a dict of lists, each with its date, in the order the two *)
(* loops of migrate_from_memory visit them                                 *)
RECURSIVE SlotsInOrder(_)
SlotsInOrder(memory_db) ==
    IF memory_db = <<>> THEN <<>>
    ELSE [k \in 1..Len(Head(memory_db).reservations) |->
             [date |-> Head(memory_db).date, reservation |-> Head(memory_db).reservations[k]]]
         \o SlotsInOrder(Tail(memory_db))

(* --------------------------- backend inputs ---------------------------- *)
(* charter *)
TxtCharter == <<99, 104, 97, 114, 116, 101, 114>>

(* the rows other clients insert: a mail booking, and a manual entry at   *)
(* another start that carries the subject and the id of a message          *)
DbAdds ==
    {<<D1, S1, TxtGmail, None, None>>, <<D1, S2, TxtManual, SubjectReservation, Id1>>}

(* a slot with the five keys migrate_from_memory reads *)
MemorySlot(start) ==
    [start |-> start, end |-> E1, type |-> TxtCharter, group |-> 1, source |-> TxtManual]

(* the memory stores to migrate: charter slots (two at one start), the     *)
(* slot gas_webhook stores (no 'group'), a list whose second slot is a     *)
(* manual entry as posted (no 'type'), and the slot gas_webhook stores of  *)
(* a record whose end is null                                              *)
MemoryStores ==
    {<<[date |-> D1, reservations |-> <<MemorySlot(S1), MemorySlot(S1)>>]>>,
     <<[date |-> D2, reservations |-> <<MemorySlot(S1), MemorySlot(S2)>>]>>,
     <<[date |-> D1, reservations |-> <<GasEntry(GasRecord(D1, S1, E1, TxtTanaka, PyFalse))>>]>>,
     <<[date |-> D1, reservations |-> <<MemorySlot(S2), ManualData(D1, S1, E1, TxtTanaka)>>]>>,
     <<[date |-> D1, reservations |-> <<GasEntry(GasRecord(D1, S1, None, TxtTanaka, PyFalse))>>]>>}

(* ----------------------------- backend run ----------------------------- *)
(* Clients of one database file and one working directory.                 *)
(* add_reservation, delete_reservation and get_all_reservations each open  *)
(* a connection and run one statement: one step.  migrate_from_memory      *)
(* calls reservation_exists and add_reservation per slot, each on a        *)
(* connection of its own, so other clients run between any two of these    *)
(* calls.  A client is a thread: it migrates a memory store into the       *)
(* database, or calls backup_to_json() and restores the file it names into *)
(* a new ReservationDB of its own.  backup_to_json names the file after    *)
(* the second of the clock, reads the table, opens the file and writes it; *)
(* restore_from_json reads the file to its end and migrates what it        *)
(* loaded.  Other clients run between any two of these steps.              *)
DbCommit(table) ==
    /\ Len(table.rows) <= MaxRows
    /\ table.seq <= MaxRows + 1
    /\ database' = table
    /\ UNCHANGED <<reservations_db, reservation_judgment_logs, threads, classifier, parser,
                   backup_files>>

DbAddReservation ==
    \E row \in DbAdds :
        DbCommit(ReservationDB_add_reservation(database, row[1], row[2], E1, row[3], 1,
                                               TxtManual, row[4], row[5]))

DbDeleteReservation ==
    \E reservation_id \in 1..(MaxRows + 1) :
        DbCommit(ReservationDB_delete_reservation(database, reservation_id))

(* the interpreter frees the connection a failed INSERT left open, at any  *)
(* time after the failure: its transaction is rolled back and the lock is  *)
(* gone                                                                    *)
DbCollect ==
    /\ database.locked
    /\ DbCommit([database EXCEPT !.locked = FALSE])

(* the table the migration of thread t works on *)
DbTarget(t) == IF threads[t].path = "restore" THEN threads[t].table ELSE database

(* migrate_from_memory is called on the database *)
DbMigrateBegin(t) ==
    /\ threads[t].pc = "idle"
    /\ \E memory_db \in MemoryStores :
          threads' = [threads EXCEPT ![t] =
                         [pc |-> "test", path |-> "migrate", error |-> "none",
                          items |-> SlotsInOrder(memory_db), migrated_count |-> 0]]
    /\ UNCHANGED <<database, reservations_db, reservation_judgment_logs, classifier, parser,
                   backup_files>>

(* the next slot of the loops: line 169, or the return after the last slot *)
DbMigrateTest(t) ==
    /\ threads[t].pc = "test"
    /\ IF threads[t].items = <<>>
       THEN threads' = [threads EXCEPT ![t].pc = "returned"]
       ELSE LET slot == Head(threads[t].items)
                test == MigrateTest(DbTarget(t), slot.date, slot.reservation)
            IN threads' = [threads EXCEPT
                              ![t].pc = IF test = "raise" THEN "raised"
                                        ELSE IF test = "new" THEN "add" ELSE "test",
                              ![t].error = IF test = "raise" THEN "KeyError" ELSE @,
                              ![t].items = IF test = "exists" THEN Tail(@) ELSE @]
    /\ UNCHANGED <<database, reservations_db, reservation_judgment_logs, classifier, parser,
                   backup_files>>

(* lines 170-178: the slot is inserted into the table as it is now; an     *)
(* exception ends the call, and the failed INSERT leaves the table locked  *)
DbMigrateAdd(t) ==
    /\ threads[t].pc = "add"
    /\ LET slot == Head(threads[t].items)
           added == MigrateAdd(DbTarget(t), slot.date, slot.reservation)
           after == IF added.error # "none"
                    THEN [threads[t] EXCEPT !.pc = "raised", !.error = added.error]
                    ELSE [threads[t] EXCEPT !.pc = "test", !.items = Tail(@),
                                            !.migrated_count = @ + 1]
       IN /\ Len(added.table.rows) <= MaxRows
          /\ added.table.seq <= MaxRows + 1
          /\ IF threads[t].path = "restore"
             THEN /\ threads' = [threads EXCEPT ![t] = [after EXCEPT !.table = added.table]]
                  /\ UNCHANGED database
             ELSE /\ threads' = [threads EXCEPT ![t] = after]
                  /\ database' = added.table
    /\ UNCHANGED <<reservations_db, reservation_judgment_logs, classifier, parser, backup_files>>

(* the latest second a backup has been named after, 0 before the first *)
LatestBackup ==
    LET named == {threads[u].backup_file :
                     u \in {v \in Threads : threads[v].path \in {"backup", "restore"}}}
    IN IF named = {} THEN 0 ELSE CHOOSE n \in named : \A m \in named : m <= n

(* backup_to_json(), lines 183-184: no name is given, the file is named    *)
(* after the second of the clock, which is the second of the latest backup *)
(* or a later one                                                          *)
DbBackupBegin(t) ==
    /\ threads[t].pc = "idle"
    /\ \E now \in BackupSeconds :
          /\ LatestBackup <= now
          /\ now <= LatestBackup + 1
          /\ threads' = [threads EXCEPT ![t] =
                            [pc |-> "select", path |-> "backup", error |-> "none",
                             backup_file |-> now, reservations |-> <<>>]]
    /\ UNCHANGED <<database, reservations_db, reservation_judgment_logs, classifier, parser,
                   backup_files>>

(* line 186: get_all_reservations *)
DbBackupSelect(t) ==
    /\ threads[t].pc = "select"
    /\ threads' = [threads EXCEPT ![t].pc = "open",
                                  ![t].reservations = ReservationDB_backup_to_json(database)]
    /\ UNCHANGED <<database, reservations_db, reservation_judgment_logs, classifier, parser,
                   backup_files>>

(* line 187: open(backup_file, 'w') *)
DbBackupOpen(t) ==
    /\ threads[t].pc = "open"
    /\ threads' = [threads EXCEPT ![t].pc = "dump"]
    /\ backup_files' = [backup_files EXCEPT ![threads[t].backup_file] = Truncated]
    /\ UNCHANGED <<database, reservations_db, reservation_judgment_logs, classifier, parser>>

(* lines 188-190: json.dump, the file is closed, the name is returned *)
DbBackupDump(t) ==
    /\ threads[t].pc = "dump"
    /\ threads' = [threads EXCEPT ![t].pc = "backed_up"]
    /\ backup_files' = [backup_files EXCEPT
                           ![threads[t].backup_file] = Written(@, threads[t].reservations)]
    /\ UNCHANGED <<database, reservations_db, reservation_judgment_logs, classifier, parser>>

(* restore_from_json of a new ReservationDB on the name backup_to_json     *)
(* returned, lines 194-195: the file is opened and json.load reads it.     *)
(* The first read gives the bytes the file holds now; of an empty file it  *)
(* gives none, the file is at its end and json.load raises JSONDecodeError *)
DbRestoreBegin(t) ==
    /\ threads[t].pc = "backed_up"
    /\ LET file == backup_files[threads[t].backup_file]
       IN threads' = [threads EXCEPT ![t] =
                         [pc |-> IF file.size = 0 THEN "raised" ELSE "eof",
                          path |-> "restore",
                          error |-> IF file.size = 0 THEN "JSONDecodeError" ELSE "none",
                          backup_file |-> threads[t].backup_file,
                          reservations |-> threads[t].reservations,
                          read |-> file, items |-> <<>>, migrated_count |-> 0,
                          table |-> EmptyTable]]
    /\ UNCHANGED <<database, reservations_db, reservation_judgment_logs, classifier, parser,
                   backup_files>>

(* the read that finds the end of the file: bytes written beyond what the  *)
(* first read gave are read as well, and the text is then no JSON text.    *)
(* json.load of a JSON text gives the dict whose slots line 197 migrates   *)
DbRestoreEof(t) ==
    /\ threads[t].pc = "eof"
    /\ LET file == backup_files[threads[t].backup_file]
           read == threads[t].read
           loaded == read.valid /\ file.size <= read.size
       IN threads' = [threads EXCEPT
                         ![t].pc = IF loaded THEN "test" ELSE "raised",
                         ![t].error = IF loaded THEN "none" ELSE "JSONDecodeError",
                         ![t].items = IF loaded THEN SlotsInOrder(read.reservations) ELSE <<>>]
    /\ UNCHANGED <<database, reservations_db, reservation_judgment_logs, classifier, parser,
                   backup_files>>

NextDB ==
    \/ DbAddReservation
    \/ DbDeleteReservation
    \/ DbCollect
    \/ \E t \in Threads : \/ DbMigrateBegin(t)
                          \/ DbMigrateTest(t)
                          \/ DbMigrateAdd(t)
                          \/ DbBackupBegin(t)
                          \/ DbBackupSelect(t)
                          \/ DbBackupOpen(t)
                          \/ DbBackupDump(t)
                          \/ DbRestoreBegin(t)
                          \/ DbRestoreEof(t)

SpecDB == Init /\ [][NextDB]_vars

(* ------------------------ concurrent requests -------------------------- *)
(* Two request threads run the Booking branch of the mail sync loop or of  *)
(* gas_webhook on one record each.  The handlers take no lock, so another  *)
(* thread may run between the statements of log_reservation_judgment,      *)
(* between two iterations of a thread's duplicate scan and between the     *)
(* scan and the append.                                                    *)
ConcSync == {MailRecords[BookingMail(m, D1, s, E1, TxtTanaka)][1] : s \in Starts, m \in MessageIds}

ConcGas == {GasRecord(D1, s, E1, TxtTanaka, PyFalse) : s \in Starts}

(* loop head: the record's fields are read and the date's list is created *)
ConcBegin(t) ==
    /\ threads[t].pc = "idle"
    /\ \E path \in {"sync", "gas"} :
         \E reservation \in (IF path = "sync" THEN ConcSync ELSE ConcGas) :
            /\ threads' = [threads EXCEPT ![t] =
                              [pc |-> IF path = "sync" THEN "log" ELSE "scan",
                               path |-> path, reservation |-> reservation,
                               duplicate |-> FALSE, pos |-> 0]]
            /\ reservations_db' = EnsureDate(reservations_db, reservation["date"])
    /\ UNCHANGED <<reservation_judgment_logs, mailvars>>

(* the mail sync writes the judgment-log line of the record before it     *)
(* scans the list: line 90 of log_reservation_judgment appends it          *)
ConcLog(t) ==
    /\ threads[t].pc = "log"
    /\ threads' = [threads EXCEPT ![t].pc = "trim"]
    /\ reservation_judgment_logs' =
           Append(reservation_judgment_logs, NextSerial(reservation_judgment_logs))
    /\ UNCHANGED <<reservations_db, mailvars>>

(* line 93: the length of the log as it is now is compared with the limit *)
ConcLogTest(t) ==
    /\ threads[t].pc = "trim"
    /\ threads' = [threads EXCEPT
                      ![t].pc = IF Len(reservation_judgment_logs) > LogLimit
                                THEN "pop" ELSE "scan"]
    /\ UNCHANGED <<reservations_db, reservation_judgment_logs, mailvars>>

(* line 94: pop(0) takes the first line of the log as it is now; on an     *)
(* empty list it raises IndexError                                         *)
ConcLogPop(t) ==
    /\ threads[t].pc = "pop"
    /\ IF reservation_judgment_logs = <<>>
       THEN /\ threads' = [threads EXCEPT ![t].pc = "failed"]
            /\ UNCHANGED reservation_judgment_logs
       ELSE /\ threads' = [threads EXCEPT ![t].pc = "scan"]
            /\ reservation_judgment_logs' = Tail(reservation_judgment_logs)
    /\ UNCHANGED <<reservations_db, mailvars>>

(* one iteration of the duplicate scan: the iterator yields the slot at   *)
(* its position of the list as it is now, or ends the loop when the        *)
(* position is past the end; a slot that matches sets duplicate and       *)
(* breaks, a KeyError ends the request                                     *)
ConcScan(t) ==
    /\ threads[t].pc = "scan"
    /\ LET reservation == threads[t].reservation
           list == reservations_db[reservation["date"]]
           pos == threads[t].pos
       IN IF pos >= Len(list)
          THEN threads' = [threads EXCEPT ![t].pc = "append"]
          ELSE LET verdict == IF threads[t].path = "sync"
                              THEN IF SyncMatch(list[pos + 1], reservation["start"],
                                                GetOr(reservation, "customer_name", TxtNA))
                                   THEN "yes" ELSE "no"
                              ELSE GasDuplicateVerdict(list[pos + 1], reservation)
               IN threads' = [threads EXCEPT
                                 ![t].pc = IF verdict = "no" THEN "scan"
                                           ELSE IF verdict = "yes" THEN "append"
                                           ELSE "failed",
                                 ![t].pos = pos + 1,
                                 ![t].duplicate = (verdict = "yes")]
    /\ UNCHANGED <<reservations_db, reservation_judgment_logs, mailvars>>

(* if not duplicate: append *)
ConcAppend(t) ==
    /\ threads[t].pc = "append"
    /\ LET reservation == threads[t].reservation
           date == reservation["date"]
           entry == IF threads[t].path = "sync"
                    THEN SyncEntry(reservation, GetOr(reservation, "customer_name", TxtNA),
                                   GetOrN(reservation, "confidence", 100))
                    ELSE GasEntry(reservation)
       IN reservations_db' = IF threads[t].duplicate THEN reservations_db
                             ELSE [reservations_db EXCEPT ![date] = Append(@, entry)]
    /\ threads' = [threads EXCEPT ![t].pc = "done"]
    /\ UNCHANGED <<reservation_judgment_logs, mailvars>>

NextConc ==
    \E t \in Threads : \/ ConcBegin(t)
                       \/ ConcLog(t)
                       \/ ConcLogTest(t)
                       \/ ConcLogPop(t)
                       \/ ConcScan(t)
                       \/ ConcAppend(t)

(* the judgment log after n more requests to add_log: the two halves of n  *)
(* one after the other, the first computed before the second starts        *)
RECURSIVE Logged(_, _)
Logged(logs, n) ==
    IF n = 0 THEN logs
    ELSE IF n = 1 THEN add_log(<<>>, logs, "valid", TxtTanaka).logs
    ELSE LET half == Logged(logs, n \div 2)
         IN IF half = <<>> THEN Logged(<<>>, n - (n \div 2))
            ELSE Logged(half, n - (n \div 2))

(* the store is empty; the judgment log is empty or the administrator has  *)
(* filled it to its limit                                                  *)
InitConc ==
    /\ reservations_db = <<>>
    /\ reservation_judgment_logs \in {<<>>, Logged(<<>>, LogLimit)}
    /\ threads = [t \in Threads |-> Idle]
    /\ classifier = NoMail
    /\ parser = NoMail
    /\ database = EmptyTable
    /\ backup_files = NoBackups

SpecConc == InitConc /\ [][NextConc]_vars

(* ----------------------- concurrent cancellations ---------------------- *)
(* Two request threads work on a store that earlier mail sync runs have    *)
(* filled.  A thread runs gas_webhook on one cancellation record, or       *)
(* delete_reservation_api.  No lock is taken, and the interpreter switches *)
(* threads at the calls and the backward jump of every loop iteration: the *)
(* for-loop of the cancellation walks the live list with an iterator that  *)
(* holds a position, and list.pop(i) removes whatever is at that index of  *)
(* the list as it is then.                                                 *)
StoredMails == {BookingMail(Id1, D1, s, E1, c) : s \in Starts, c \in MailNames}

ConcCancelGas == {GasRecord(D1, s, E1, TxtTanaka, PyTrue) : s \in Starts}

(* the store and the judgment log after one mail sync run per mail, in     *)
(* order, from the state the app starts in                                 *)
RECURSIVE Synced(_)
Synced(mails) ==
    IF mails = <<>> THEN Out(<<>>, <<>>, Status(200))
    ELSE LET before == Synced(SubSeq(mails, 1, Len(mails) - 1))
         IN sync_gmail_reservations(before.db, before.logs, "valid", "ok",
                                    MailRecords[mails[Len(mails)]])

InitCancel ==
    /\ \E mails \in {q \in SeqsUpTo(StoredMails, MaxSlots) : NoRepeat(q)} :
          /\ reservations_db = Synced(mails).db
          /\ reservation_judgment_logs = Synced(mails).logs
    /\ threads = [t \in Threads |-> Idle]
    /\ classifier = NoMail
    /\ parser = NoMail
    /\ database = EmptyTable
    /\ backup_files = NoBackups

(* gas_webhook, loop head on a cancellation record: the date's list is     *)
(* created if the store has none, enumerate() starts at position 0         *)
CancelBegin(t) ==
    /\ threads[t].pc = "idle"
    /\ \E reservation \in ConcCancelGas :
          /\ threads' = [threads EXCEPT ![t] =
                            [pc |-> "scan", path |-> "gas", reservation |-> reservation,
                             duplicate |-> FALSE, pos |-> 0, index |-> 0, removed |-> <<>>]]
          /\ reservations_db' = EnsureDate(reservations_db, reservation["date"])
    /\ UNCHANGED <<reservation_judgment_logs, mailvars>>

(* one iteration of the cancellation loop: the iterator yields the slot at *)
(* its position of the list as it is now, or ends the loop when the        *)
(* position is past the end; the slot is tested against the record         *)
CancelNext(t) ==
    /\ threads[t].pc = "scan"
    /\ LET reservation == threads[t].reservation
           list == reservations_db[reservation["date"]]
           pos == threads[t].pos
       IN IF pos >= Len(list)
          THEN threads' = [threads EXCEPT ![t].pc = "notfound"]
          ELSE LET verdict == GasCancelVerdict(list[pos + 1], reservation)
               IN threads' = [threads EXCEPT
                                 ![t].pc = IF verdict = "yes" THEN "pop"
                                           ELSE IF verdict = "no" THEN "scan" ELSE "failed",
                                 ![t].pos = pos + 1,
                                 ![t].index = IF verdict = "yes" THEN pos + 1 ELSE 0]
    /\ UNCHANGED <<reservations_db, reservation_judgment_logs, mailvars>>

(* reservations_db[date].pop(i): an index past the end raises IndexError, *)
(* which ends the request with a 500                                       *)
CancelPop(t) ==
    /\ threads[t].pc = "pop"
    /\ LET date == threads[t].reservation["date"]
           list == reservations_db[date]
           i == threads[t].index
       IN IF i > Len(list)
          THEN /\ threads' = [threads EXCEPT ![t].pc = "failed"]
               /\ UNCHANGED reservations_db
          ELSE /\ threads' = [threads EXCEPT ![t].pc = "cancelled",
                                             ![t].removed = <<list[i]>>]
               /\ reservations_db' = [reservations_db EXCEPT ![date] = Pop(@, i)]
    /\ UNCHANGED <<reservation_judgment_logs, mailvars>>

(* delete_reservation_api of a logged-in admin, line 222: the test of the  *)
(* date and the index against the list as it is now                        *)
DeleteTest(t) ==
    /\ threads[t].pc = "idle"
    /\ \E index \in 0..(MaxSlots - 1) :
          threads' = [threads EXCEPT ![t] =
                         [pc |-> IF delete_reservation_api(reservations_db,
                                        reservation_judgment_logs, "valid", D1,
                                        index).resp.status = 200
                                 THEN "delete" ELSE "invalid",
                          path |-> "delete", reservation |-> <<>>, duplicate |-> FALSE,
                          pos |-> 0, index |-> index + 1, removed |-> <<>>]]
    /\ UNCHANGED <<reservations_db, reservation_judgment_logs, mailvars>>

(* line 223: reservations_db[date].pop(index) on the list as it is now; an *)
(* index past the end raises IndexError, which ends the request with a 500 *)
DeletePop(t) ==
    /\ threads[t].pc = "delete"
    /\ LET list == reservations_db[D1]
           i == threads[t].index
       IN IF i > Len(list)
          THEN /\ threads' = [threads EXCEPT ![t].pc = "failed"]
               /\ UNCHANGED reservations_db
          ELSE /\ threads' = [threads EXCEPT ![t].pc = "deleted",
                                             ![t].removed = <<list[i]>>]
               /\ reservations_db' = [reservations_db EXCEPT ![D1] = Pop(@, i)]
    /\ UNCHANGED <<reservation_judgment_logs, mailvars>>

NextCancel ==
    \E t \in Threads : \/ CancelBegin(t)
                       \/ CancelNext(t)
                       \/ CancelPop(t)
                       \/ DeleteTest(t)
                       \/ DeletePop(t)

SpecCancel == InitCancel /\ [][NextCancel]_vars

(* =========================== properties ================================ *)
(* The handlers are functions of the store, the log and the request, so a  *)
(* contract of a handler is stated in every reachable state, for every     *)
(* request of the sets below, on the handler's outcome.                    *)
AnyNames == {TxtTanaka, Absent, None}

SlotsOn(db, date) == IF date \in DOMAIN db THEN db[date] ELSE <<>>

(* number of slots on a date with a given (start, customer_name) *)
KeyCount(db, date, start, customer_name) ==
    LET list == SlotsOn(db, date)
    IN Cardinality({i \in 1..Len(list) : /\ list[i]["start"] = start
                                         /\ list[i]["customer_name"] = customer_name})

(* an authenticated mail sync run over an inbox: the handler on what the   *)
(* connector returns for the messages                                      *)
RunSync(db, logs, messages) ==
    sync_gmail_reservations(db, logs, "valid", "ok", InboxRecords(messages))

(* the name gas_webhook stores a record under: the default only when the   *)
(* record carries no name at all                                           *)
StoredName(customer_name) == IF customer_name = Absent THEN TxtNA ELSE customer_name

(* ---- C1 *)
(* what two booking mails with one (date, start, customer_name) leave,     *)
(* in one run and in two runs, and what a run leaves that fetches the      *)
(* first mail again; expected(n) is the number of slots with that key the  *)
(* claim expects when n were there before                                  *)
SameKeyTwice(expected(_)) ==
    \A d \in Dates, s \in Starts, c \in MailNames, e1 \in Ends, e2 \in Ends :
        LET a == BookingMail(Id1, d, s, e1, c)
            b == BookingMail(Id2, d, s, e2, c)
            n == KeyCount(reservations_db, d, s, c)
            one == RunSync(reservations_db, reservation_judgment_logs, <<a, b>>)
            first == RunSync(reservations_db, reservation_judgment_logs, <<a>>)
            second == RunSync(first.db, first.logs, <<b>>)
            again == RunSync(first.db, first.logs, <<a>>)
        IN /\ KeyCount(one.db, d, s, c) = expected(n)
           /\ KeyCount(second.db, d, s, c) = expected(n)
           /\ second.db = first.db
           /\ second.resp.added = 0
           /\ again.db = first.db
           /\ again.resp.added = 0
           /\ one.db = first.db
           /\ one.resp.added = first.resp.added

(* C1 as stated: for any store state, two mail-sync Booking events with   *)
(* the same date, start and customer_name leave exactly one slot with that *)
(* (start, customer_name) on that date, and the second appends nothing.    *)
C1_ExactlyOne == SameKeyTwice(LAMBDA n : 1)

(* C1 amended: two mail-sync Booking events with the same date, start and *)
(* customer_name leave one slot with that key if the store held none, and  *)
(* leave the number of such slots unchanged if it held some; the second    *)
(* application appends nothing and does not increase the added count.      *)
C1_AtMostOneAdded == SameKeyTwice(LAMBDA n : IF n = 0 THEN 1 ELSE n)

(* a slot stored by mail sync is in the store and the same booking under   *)
(* another message id is skipped                                           *)
C1_Witness ==
    \E d \in DOMAIN reservations_db :
        \E i \in 1..Len(reservations_db[d]) :
            LET slot == reservations_db[d][i]
            IN /\ slot["source"] = TxtFastGmailSync
               /\ slot["customer_name"] \in MailNames
               /\ KeyCount(reservations_db, d, slot["start"], slot["customer_name"]) = 1
               /\ RunSync(reservations_db, reservation_judgment_logs,
                          <<BookingMail(Id2, d, slot["start"], slot["end"],
                                        slot["customer_name"])>>).resp.added = 0

(* a webhook batch with the right secret *)
RunGas(db, logs, reservations) == gas_webhook(db, logs, GasSecret, TRUE, reservations)

(* number of slots on a date with a given (start, end, customer_name) *)
RecordCount(db, date, start, end, customer_name) ==
    LET list == SlotsOn(db, date)
    IN Cardinality({i \in 1..Len(list) : /\ list[i]["start"] = start
                                         /\ list[i]["end"] = end
                                         /\ list[i]["customer_name"] = customer_name})

(* index of the first slot of a list that satisfies P, 0 if none *)
FirstIndex(list, P(_)) ==
    LET hits == {i \in 1..Len(list) : P(list[i])}
    IN IF hits = {} THEN 0 ELSE CHOOSE i \in hits : \A j \in hits : i <= j

(* ---- C2 *)
(* C2: in gas_webhook, the same booking record (same date, start, end,    *)
(* customer_name) applied twice, in one batch or in two batches, to a      *)
(* store that holds no slot for it leaves exactly one slot for it (under   *)
(* the name it is stored with, the default name when the record carries    *)
(* none), and the second application changes nothing.                      *)
C2_GasSameRecordOneSlot ==
    \A d \in Dates, s \in Starts, e \in Ends, c \in AnyNames :
        LET r == GasRecord(d, s, e, c, PyFalse)
            n == RecordCount(reservations_db, d, s, e, StoredName(c))
            one == RunGas(reservations_db, reservation_judgment_logs, <<r, r>>)
            first == RunGas(reservations_db, reservation_judgment_logs, <<r>>)
            second == RunGas(first.db, first.logs, <<r>>)
        IN n = 0 =>
             /\ RecordCount(one.db, d, s, e, StoredName(c)) = 1
             /\ RecordCount(second.db, d, s, e, StoredName(c)) = 1
             /\ second.db = first.db
             /\ second.resp.added = 0

(* ---- C3 *)
(* C3: in add_reservation and in process_email with action_type           *)
(* 'booking', the same Booking event applied twice to a store whose date   *)
(* holds no slot leaves exactly one slot on that date, and the second      *)
(* application leaves the store unchanged.                                 *)
C3_ManualAndSingleEventOneSlot ==
    \A d \in Dates, s \in Starts :
        Len(SlotsOn(reservations_db, d)) = 0 =>
          /\ LET data == ManualData(d, s, E1, TxtTanaka)
                 first == add_reservation(reservations_db, reservation_judgment_logs,
                                          "valid", data)
                 second == add_reservation(first.db, first.logs, "valid", data)
             IN /\ Len(SlotsOn(second.db, d)) = 1
                /\ second.db = first.db
          /\ LET data == ProcessData(TxtBooking, d, s, E1)
                 first == process_email(reservations_db, reservation_judgment_logs, data)
                 second == process_email(first.db, first.logs, data)
             IN /\ Len(SlotsOn(second.db, d)) = 1
                /\ second.db = first.db

(* ---- C4 *)
(* the store after the slot at index i of a date is removed and nothing    *)
(* else is touched                                                         *)
WithoutSlot(db, date, i) == [db EXCEPT ![date] = Pop(@, i)]

(* mail sync: the first slot with the (start, customer_name) of the        *)
(* cancellation mail goes                                                  *)
CancelFirstMatchSync ==
    \A d \in Dates, s \in Starts, c \in MailNames :
        LET i == FirstIndex(SlotsOn(reservations_db, d),
                            LAMBDA x : x["start"] = s /\ x["customer_name"] = c)
            out == RunSync(reservations_db, reservation_judgment_logs,
                           <<CancelMail(Id2, d, s, E1, c)>>)
        IN i # 0 => /\ out.db = WithoutSlot(reservations_db, d, i)
                    /\ out.resp.cancelled = 1

(* gas_webhook: the first slot with the record's (start, type) goes *)
CancelFirstMatchGas ==
    \A d \in Dates, s \in Starts :
        LET i == FirstIndex(SlotsOn(reservations_db, d),
                            LAMBDA x : x["start"] = s /\ x["type"] = TxtGmail)
            out == RunGas(reservations_db, reservation_judgment_logs,
                          <<GasRecord(d, s, E1, TxtTanaka, PyTrue)>>)
        IN i # 0 => /\ out.db = WithoutSlot(reservations_db, d, i)
                    /\ out.resp.cancelled = 1

(* process_email: the first slot with the event's start and type 'gmail'  *)
(* goes                                                                    *)
CancelFirstMatchProcess ==
    \A d \in Dates, s \in Starts :
        LET i == FirstIndex(SlotsOn(reservations_db, d),
                            LAMBDA x : x["start"] = s /\ x["type"] = TxtGmail)
            out == process_email(reservations_db, reservation_judgment_logs,
                                 ProcessData(TxtCancellation, d, s, Absent))
        IN i # 0 => /\ out.db = WithoutSlot(reservations_db, d, i)
                    /\ out.resp.status = 200

(* C4: a Cancellation event removes exactly the first slot, in insertion  *)
(* order, on its date that matches its key ((start, customer_name) in mail *)
(* sync, (start, type) in gas_webhook and process_email); every other slot *)
(* on that date and every slot on other dates stays, in its order.         *)
C4_CancelRemovesFirstMatch ==
    CancelFirstMatchSync /\ CancelFirstMatchGas /\ CancelFirstMatchProcess

(* ---- C5 *)
(* C5: on a date that holds no slot (the empty store included), a mail    *)
(* sync Booking event followed by a Cancellation event with the same       *)
(* (date, start, customer_name) leaves the date with no slots and counts   *)
(* one cancellation; the same Cancellation applied again removes nothing,  *)
(* leaves the store as it is and counts no cancellation.  The same holds   *)
(* when both messages come in one run; other dates are not touched.        *)
C5_BookCancelCancel ==
    \A d \in Dates, s \in Starts, c \in MailNames :
        SlotsOn(reservations_db, d) = <<>> =>
          LET book == BookingMail(Id1, d, s, E1, c)
              cancel == CancelMail(Id2, d, s, E1, c)
              booked == RunSync(reservations_db, reservation_judgment_logs, <<book>>)
              cancelled == RunSync(booked.db, booked.logs, <<cancel>>)
              again == RunSync(cancelled.db, cancelled.logs, <<cancel>>)
              one == RunSync(reservations_db, reservation_judgment_logs, <<book, cancel>>)
          IN /\ booked.resp.added = 1
             /\ Len(booked.db[d]) = 1
             /\ cancelled.db[d] = <<>>
             /\ cancelled.resp.cancelled = 1
             /\ again.db = cancelled.db
             /\ again.resp.cancelled = 0
             /\ one.db = cancelled.db
             /\ one.resp.added = 1
             /\ one.resp.cancelled = 1
             /\ \A d2 \in DOMAIN reservations_db \ {d} :
                    cancelled.db[d2] = reservations_db[d2]

(* the store is an empty store plus one mail sync booking (one slot, one  *)
(* log line); the run over the cancellation mail for it counts no          *)
(* cancellation and the slot stays                                         *)
C5_Witness ==
    /\ DOMAIN reservations_db = {D1}
    /\ Len(reservations_db[D1]) = 1
    /\ reservations_db[D1][1]["source"] = TxtFastGmailSync
    /\ reservations_db[D1][1]["customer_name"] = TxtTanaka
    /\ reservation_judgment_logs = <<1>>
    /\ LET slot == reservations_db[D1][1]
           cancel == CancelMail(Id2, D1, slot["start"], slot["end"], slot["customer_name"])
           cancelled == RunSync(reservations_db, reservation_judgment_logs, <<cancel>>)
       IN /\ cancelled.db = reservations_db
          /\ cancelled.resp.status = 200
          /\ cancelled.resp.cancelled = 0

(* ---- C6 *)
(* C6: a Cancellation event that matches no slot leaves the store, as     *)
(* get_reservations returns it (the mapping and its date keys), as it was; *)
(* in mail sync, gas_webhook and process_email, also when the event's date *)
(* is not a key of the store.                                              *)
C6_CancelNotFoundStoreUnchanged ==
    \A d \in Dates, s \in Starts :
        LET list == SlotsOn(reservations_db, d)
            before == get_reservations(reservations_db)
        IN /\ \A c \in MailNames :
                FirstIndex(list, LAMBDA x : x["start"] = s /\ x["customer_name"] = c) = 0
                => get_reservations(
                       RunSync(reservations_db, reservation_judgment_logs,
                               <<CancelMail(Id2, d, s, E1, c)>>).db) = before
           /\ FirstIndex(list, LAMBDA x : x["start"] = s /\ x["type"] = TxtGmail) = 0
                => /\ get_reservations(
                          RunGas(reservations_db, reservation_judgment_logs,
                                 <<GasRecord(d, s, E1, TxtTanaka, PyTrue)>>).db) = before
                   /\ get_reservations(
                          process_email(reservations_db, reservation_judgment_logs,
                                        ProcessData(TxtCancellation, d, s, Absent)).db) = before

(* ---- C7 *)
(* C7: a record that FastGmailSync.parse_reservation marks as a           *)
(* cancellation is applied by sync_gmail_reservations as a Cancellation:   *)
(* it is never appended as a slot, and when a slot with its                *)
(* (start, customer_name) is on its date the first such slot is removed.   *)
C7_ConnectorCancellationCancels ==
    \A d \in Dates, s \in Starts, c \in MailNames :
        LET message == CancelMail(Id2, d, s, E1, c)
            records == MailRecords[message]
            out == RunSync(reservations_db, reservation_judgment_logs, <<message>>)
        IN \A k \in 1..Len(records) :
             records[k]["is_cancellation"] = PyTrue =>
               LET i == FirstIndex(SlotsOn(reservations_db, records[k]["date"]),
                                   LAMBDA x : /\ x["start"] = records[k]["start"]
                                              /\ x["customer_name"] = records[k]["customer_name"])
               IN /\ TotalSlots(out.db) <= TotalSlots(reservations_db)
                  /\ i # 0 => out.db = WithoutSlot(reservations_db, records[k]["date"], i)

(* ---- C8 *)
(* C8: when two requests that carry a Booking event with the same date    *)
(* and duplicate key are handled concurrently, whatever the interleaving   *)
(* of their scan and append steps, at most one slot with that key is in    *)
(* the store once both are done: the two never both pass the duplicate     *)
(* check and both get stored.                                              *)
C8_ConcurrentBookingsOneSlot ==
    \A t \in Threads, u \in Threads :
        (/\ t # u
         /\ threads[t].pc = "done" /\ threads[u].pc = "done"
         /\ threads[t].reservation["date"] = threads[u].reservation["date"]
         /\ threads[t].reservation["start"] = threads[u].reservation["start"]
         /\ threads[t].reservation["end"] = threads[u].reservation["end"]
         /\ threads[t].reservation["customer_name"] = threads[u].reservation["customer_name"])
        => /\ ~(~threads[t].duplicate /\ ~threads[u].duplicate)
           /\ KeyCount(reservations_db, threads[t].reservation["date"],
                       threads[t].reservation["start"],
                       threads[t].reservation["customer_name"]) <= 1

(* two requests with one date and key both appended: neither scan saw the  *)
(* slot of the other                                                       *)
C8_Witness ==
    \E t \in Threads, u \in Threads :
        /\ t # u
        /\ threads[t].pc = "done" /\ threads[u].pc = "done"
        /\ threads[t].reservation["date"] = threads[u].reservation["date"]
        /\ threads[t].reservation["start"] = threads[u].reservation["start"]
        /\ threads[t].reservation["end"] = threads[u].reservation["end"]
        /\ threads[t].reservation["customer_name"] = threads[u].reservation["customer_name"]
        /\ ~threads[t].duplicate /\ ~threads[u].duplicate
        /\ KeyCount(reservations_db, threads[t].reservation["date"],
                    threads[t].reservation["start"],
                    threads[t].reservation["customer_name"]) = 2

(* two mail syncs wrote their lines into a full judgment log: it held 202  *)
(* lines before either of them popped one                                  *)
C8_WitnessLogOverLimit ==
    /\ Len(reservation_judgment_logs) = LogLimit + 2
    /\ \A t \in Threads : threads[t].pc \in {"trim", "pop"}

(* ---- C9 *)
(* the lines of the log are in the order of their appends with none       *)
(* missing in between: only the oldest lines have been evicted             *)
LogKeepsOrder ==
    \A i \in 1..(Len(reservation_judgment_logs) - 1) :
        reservation_judgment_logs[i + 1] = reservation_judgment_logs[i] + 1

(* C9: after any sequence of Judgment Log operations                      *)
(* (log_reservation_judgment, add_log, clear_logs, export_logs) the log    *)
(* holds at most 200 entries, and evictions take the oldest entry and keep *)
(* the order of the rest.                                                  *)
C9_LogAtMost200 ==
    /\ Len(reservation_judgment_logs) <= LogLimit
    /\ LogKeepsOrder

(* ---- C10 *)
(* one line was appended to the log between before and after *)
OneLineAppended(before, after) ==
    /\ after # <<>>
    /\ NextSerial(after) = NextSerial(before) + 1

(* C10: a Booking or Cancellation event applied through any ingestion     *)
(* path (add_reservation, process_email, gas_webhook, mail sync) appends   *)
(* one entry to the Judgment Log, whatever the merge outcome.              *)
C10_EveryApplicationLogged ==
    \A d \in Dates, s \in Starts :
        /\ OneLineAppended(reservation_judgment_logs,
               add_reservation(reservations_db, reservation_judgment_logs, "valid",
                               ManualData(d, s, E1, TxtTanaka)).logs)
        /\ \A subject \in {SubjectReservation, SubjectCancel} :
             OneLineAppended(reservation_judgment_logs,
                 RunSync(reservations_db, reservation_judgment_logs,
                         <<Mail(Id2, subject, d, s, E1, TxtTanaka)>>).logs)
        /\ \A a \in {TxtBooking, TxtCancellation} :
             LET out == process_email(reservations_db, reservation_judgment_logs,
                                      ProcessData(a, d, s, E1))
             IN out.resp.status \in {200, 404}
                => OneLineAppended(reservation_judgment_logs, out.logs)
        /\ \A k \in {PyFalse, PyTrue} :
             LET out == RunGas(reservations_db, reservation_judgment_logs,
                               <<GasRecord(d, s, E1, TxtTanaka, k)>>)
             IN out.resp.status = 200
                => OneLineAppended(reservation_judgment_logs, out.logs)

(* ---- C11 *)
(* the slots of every date are the same in two stores *)
SameSlots(db1, db2) == \A d \in Dates : SlotsOn(db1, d) = SlotsOn(db2, d)

GasPrefixes == SeqsUpTo({GasRecord(D1, S1, E1, TxtTanaka, k) : k \in {PyFalse, PyTrue}}, 2)

MailPrefixes ==
    {p \in SeqsUpTo({BookingMail(Id1, D1, S1, E1, TxtTanaka),
                     CancelMail(Id2, D1, S1, E1, TxtTanaka)}, 2) : NoRepeat(p)}

(* C11: a batch of gas_webhook or of mail sync applies its events one at  *)
(* a time in the order received (a batch leaves what its events leave when *)
(* sent one by one), and when event k of a webhook batch fails on a        *)
(* missing required field the run ends with a 500 and the store holds the  *)
(* slots events 1..k-1 left: nothing is rolled back and no later event is  *)
(* applied.  (The records the mail connector returns carry every field the *)
(* sync loop subscripts; a message the connector cannot read is skipped,   *)
(* the run goes on with the next one and what was applied stays.)          *)
C11_NoRollback ==
    /\ \A p \in GasPrefixes, key \in {"date", "start", "end"} :
         LET bad == Without(GasRecord(D2, S1, E1, TxtTanaka, PyFalse), key)
             later == GasRecord(D1, S2, E1, TxtTanaka, PyFalse)
             done == RunGas(reservations_db, reservation_judgment_logs, p)
             out == RunGas(reservations_db, reservation_judgment_logs,
                           p \o <<bad, later>>)
         IN /\ done.resp.status = 200
            /\ out.resp.status = 500
            /\ SameSlots(out.db, done.db)
            /\ Len(p) = 2 =>
                 done.db = RunGas(RunGas(reservations_db, reservation_judgment_logs,
                                         <<p[1]>>).db,
                                  reservation_judgment_logs, <<p[2]>>).db
    /\ \A p \in MailPrefixes :
         LET bad == Unreadable(BookingMail(Id3, D2, S1, E1, TxtTanaka))
             later == BookingMail(Id4, D1, S2, E1, TxtTanaka)
             done == RunSync(reservations_db, reservation_judgment_logs, p)
             out == RunSync(reservations_db, reservation_judgment_logs,
                            p \o <<bad, later>>)
             rest == RunSync(done.db, done.logs, <<later>>)
         IN /\ done.resp.status = 200
            /\ out.resp.status = 200
            /\ out.db = rest.db
            /\ out.resp.added = done.resp.added + rest.resp.added
            /\ Len(p) = 2 =>
                 LET first == RunSync(reservations_db, reservation_judgment_logs, <<p[1]>>)
                 IN done.db = RunSync(first.db, first.logs, <<p[2]>>).db

(* the store holds a slot a batch can cancel, and a batch that cancels it *)
(* and then fails ends with a 500 with the slot gone                       *)
C11_Witness ==
    /\ D1 \in DOMAIN reservations_db
    /\ \E i \in 1..Len(reservations_db[D1]) : reservations_db[D1][i]["source"] = TxtGas
    /\ LET cancel == GasRecord(D1, S1, E1, TxtTanaka, PyTrue)
           out == RunGas(reservations_db, reservation_judgment_logs,
                         <<cancel, Without(cancel, "date")>>)
       IN /\ out.resp.status = 500
          /\ Len(out.db[D1]) = Len(reservations_db[D1]) - 1

(* ---- C12 *)
(* the summary of a completed run agrees with what the run did to the     *)
(* store                                                                   *)
CountsAgree(db, out, batch) ==
    out.resp.status = 200 =>
      /\ out.resp.added >= 0
      /\ out.resp.cancelled >= 0
      /\ out.resp.total_found = Len(batch)
      /\ TotalSlots(out.db) = TotalSlots(db) + out.resp.added - out.resp.cancelled
      /\ out.resp.added + out.resp.cancelled <= out.resp.total_found

CountGas == {GasRecord(D1, S1, E1, c, k) : c \in AnyNames, k \in {PyFalse, PyTrue}}
            \cup {GasRecord(D2, S2, E2, TxtTanaka, PyFalse)}

CountMails == {BookingMail(Id1, D1, S1, E1, TxtTanaka), CancelMail(Id2, D1, S1, E1, TxtTanaka),
               BookingMail(Id3, D1, S1, E1, TxtNA), BookingMail(Id4, D2, S2, E2, TxtTanaka)}

(* C12: for every completed run of gas_webhook or mail sync, the number   *)
(* of stored slots after the run is the number before plus 'added' minus   *)
(* 'cancelled', total_found is the number of events received and           *)
(* added + cancelled does not exceed it.                                   *)
C12_CountsMatchStore ==
    /\ \A batch \in SeqsUpTo(CountGas, 2) :
          CountsAgree(reservations_db,
                      RunGas(reservations_db, reservation_judgment_logs, batch), batch)
    /\ \A batch \in {q \in SeqsUpTo(CountMails, 2) : NoRepeat(q)} :
          CountsAgree(reservations_db,
                      RunSync(reservations_db, reservation_judgment_logs, batch),
                      InboxRecords(batch))

(* a run that removes one stored slot and appends one reports 1 and 1 *)
C12_Witness ==
    /\ TotalSlots(reservations_db) >= 1
    /\ LET batch == <<GasRecord(D1, S1, E1, TxtTanaka, PyTrue),
                      GasRecord(D2, S2, E2, TxtTanaka, PyFalse)>>
           out == RunGas(reservations_db, reservation_judgment_logs, batch)
       IN /\ out.resp.status = 200
          /\ out.resp.cancelled = 1
          /\ out.resp.added = 1
          /\ TotalSlots(out.db) = TotalSlots(reservations_db)

(* ---- C13 *)
(* number of slots on a date with a given start *)
StartCount(db, date, start) ==
    LET list == SlotsOn(db, date)
    IN Cardinality({i \in 1..Len(list) : list[i]["start"] = start})

(* C13: when mail sync adds a Booking event, the group of the new slot is *)
(* the number of slots already on that date with the same start, plus 1.   *)
C13_GroupIsCountPlusOne ==
    \A d \in Dates, s \in Starts, c \in MailNames :
        LET out == RunSync(reservations_db, reservation_judgment_logs,
                           <<BookingMail(Id2, d, s, E1, c)>>)
        IN out.resp.added = 1 =>
             out.db[d][Len(out.db[d])]["group"] = StartCount(reservations_db, d, s) + 1

(* ---- C14 *)
(* the mail at hand has been classified *)
Classified == classifier.stage = "classified"

(* a structured date is in the body, in ASCII or in fullwidth digits *)
HasDate(body) == In(LineDate, body) \/ In(LineDateWide, body)

(* 'hallel', in any case, occurs in the text *)
HasBrand(text) == In(TxtHallel, Lower(text))

(* C14: when the brand marker 'hallel' (case-insensitive) is in neither   *)
(* the subject nor the body, classify_email returns None, whatever store   *)
(* markers, action keywords, dates and times the mail carries.             *)
C14_NoBrandNoEvent ==
    (Classified /\ ~HasBrand(classifier.subject) /\ ~HasBrand(classifier.body))
        => classifier.result = <<>>

(* a mail without the brand marker that carries the Shibuya marker, a     *)
(* date, a time range and a booking keyword was classified as None         *)
C14_Witness ==
    /\ Classified
    /\ ~HasBrand(classifier.subject) /\ ~HasBrand(classifier.body)
    /\ In(LineShibuyaTen, classifier.body) /\ ~In(LineHanzomonTen, classifier.body)
    /\ HasDate(classifier.body) /\ In(LineTime, classifier.body)
    /\ In(booking_keywords[1], classifier.body)
    /\ classifier.result = <<>>

(* ---- C15 *)
Included(body) == In(TxtShibuyaTen, body) \/ In(TxtShibuya, Lower(body))

Excluded(body) == In(TxtHanzomonTen, body) \/ In(TxtHanzomon, Lower(body))

(* C15: classify_email returns None when the excluded store marker        *)
(* (半蔵門店 / hanzomon) is in the body, also when the included marker     *)
(* (渋谷店 / shibuya) is there too, and when neither marker is there; an   *)
(* event is returned only with the included marker and without the         *)
(* excluded one.                                                           *)
C15_LocationFilter ==
    Classified =>
      /\ Excluded(classifier.body) => classifier.result = <<>>
      /\ (~Included(classifier.body) /\ ~Excluded(classifier.body))
            => classifier.result = <<>>
      /\ classifier.result # <<>>
            => (Included(classifier.body) /\ ~Excluded(classifier.body))

(* a branded mail with both store markers, a date, a time range and a     *)
(* booking keyword was classified as None                                  *)
C15_Witness ==
    /\ Classified
    /\ HasBrand(classifier.subject)
    /\ In(LineShibuyaTen, classifier.body) /\ In(LineHanzomonTen, classifier.body)
    /\ HasDate(classifier.body) /\ In(LineTime, classifier.body)
    /\ In(booking_keywords[1], classifier.body)
    /\ classifier.result = <<>>

(* ---- C16 *)
(* C16: when the body matches a cancellation keyword, the event that      *)
(* classify_email returns has action 'cancellation', also when booking     *)
(* keywords occur as well.                                                 *)
C16_CancellationFirst ==
    (/\ Classified
     /\ classifier.result # <<>>
     /\ Matched(cancellation_keywords, classifier.body) # {})
        => classifier.result[1].action_type = TxtCancellation

(* an event was returned for a body with a cancellation keyword and a     *)
(* booking keyword, and it is a cancellation                               *)
C16_Witness ==
    /\ Classified
    /\ classifier.result # <<>>
    /\ Matched(cancellation_keywords, classifier.body) # {}
    /\ Matched(booking_keywords, classifier.body) # {}
    /\ classifier.result[1].action_type = TxtCancellation

(* ---- C17 *)
(* C17: classify_email returns no partial event: None when the body has   *)
(* no structured date, no start-end time range or no determinable action;  *)
(* a returned event has action_type booking or cancellation, a date of the *)
(* form YYYY-MM-DD and start and end times of the form HH:MM.              *)
C17_NoPartialEvent ==
    Classified =>
      /\ ~HasDate(classifier.body) => classifier.result = <<>>
      /\ ~In(LineTime, classifier.body) => classifier.result = <<>>
      /\ _determine_action_type(classifier.body) = None => classifier.result = <<>>
      /\ classifier.result # <<>> =>
           /\ classifier.result[1].action_type \in {TxtBooking, TxtCancellation}
           /\ Len(classifier.result[1].date) = 10
           /\ Len(classifier.result[1].start_time) = 5
           /\ Len(classifier.result[1].end_time) = 5

(* a branded Shibuya mail with a booking keyword and a time range but no  *)
(* date was classified as None                                             *)
C17_Witness ==
    /\ Classified
    /\ HasBrand(classifier.subject)
    /\ Included(classifier.body) /\ ~Excluded(classifier.body)
    /\ In(booking_keywords[1], classifier.body)
    /\ In(LineTime, classifier.body) /\ ~HasDate(classifier.body)
    /\ classifier.result = <<>>

(* ---- C18 *)
(* the double nearest to h/20 *)
Nearest(h) == FloatAdd(Float(h, 0), Float(0, 0))

(* a <= b *)
FloatLeq(a, b) == ~FloatLess(b, a)

(* twenty times the sum the scoring rule names, in exact arithmetic:      *)
(* 0.5, 0.1 (booking) or 0.15 (cancellation) per matched keyword, 0.1 for  *)
(* the date, 0.1 for the time range, 0.1 for the literal HALLEL            *)
ExactScore(action_type, body) ==
    10 + (IF action_type = TxtBooking
          THEN 2 * Cardinality(Matched(booking_keywords, body))
          ELSE 3 * Cardinality(Matched(cancellation_keywords, body)))
       + (IF HasDate(body) THEN 2 ELSE 0)
       + (IF In(LineTime, body) THEN 2 ELSE 0)
       + (IF In(TxtHALLEL, body) THEN 2 ELSE 0)

Clamp20(h) == IF h > 20 THEN 20 ELSE h

(* the lines that corroborate an event of the given action *)
Corroborating(action_type) ==
    {TxtHALLEL} \cup
    (IF action_type = TxtBooking
     THEN {booking_keywords[k] : k \in DOMAIN booking_keywords}
     ELSE {cancellation_keywords[k] : k \in DOMAIN cancellation_keywords})

(* C18 as stated: the confidence of a returned event is the value         *)
(* min(1.0, 0.5 + increments) of the scoring rule.                         *)
C18_ConfidenceIsExactSum ==
    (Classified /\ classifier.result # <<>>) =>
        classifier.result[1].confidence =
            Nearest(Clamp20(ExactScore(classifier.result[1].action_type, classifier.body)))

(* C18: the confidence of a returned event is the scoring rule's value    *)
(* min(1.0, 0.5 + increments) up to the rounding of the double additions   *)
(* (at most 2^-53 away from its nearest double); it is within [0.5, 1.0],  *)
(* and it does not decrease when a line with a further keyword of the same *)
(* action or with the literal HALLEL is appended to the body.              *)
C18_ConfidenceWithinRounding ==
    (Classified /\ classifier.result # <<>>) =>
        LET info == classifier.result[1]
            near == Nearest(Clamp20(ExactScore(info.action_type, classifier.body)))
        IN /\ info.confidence.h = near.h
           /\ info.confidence.e - near.e \in -40 .. 40
           /\ FloatLeq(F_0_5, info.confidence) /\ FloatLeq(info.confidence, F_1_0)
           /\ \A line \in Corroborating(info.action_type) :
                \A more \in {classify_email(classifier.subject,
                                            classifier.body \o <<Newline>> \o line)} :
                    (more # <<>> /\ more[1].action_type = info.action_type)
                        => FloatLeq(info.confidence, more[1].confidence)

(* a booking with one keyword, a date and a time range got 0.5 + 0.1 +    *)
(* 0.1 + 0.1 in double arithmetic, which is not the double nearest to 0.8  *)
C18_Witness ==
    /\ Classified
    /\ classifier.result # <<>>
    /\ classifier.result[1].action_type = TxtBooking
    /\ ExactScore(TxtBooking, classifier.body) = 16
    /\ classifier.result[1].confidence # Nearest(16)
    /\ classifier.result[1].confidence.h = 16

(* ---- C19 *)
(* the body of Scenario A: 田中 様, 渋谷店, 2025年11月02日, 10:00~11:00,     *)
(* より、ご予約をいただきました, one per line                               *)
ScenarioABody == JoinLines(<<LineName, LineShibuyaTen, LineDate, LineTime, LineScenarioA>>)

(* C19: Scenario A: for the subject 'HALLELよりご予約確認' and the body of  *)
(* the scenario, classify_email returns one booking event with date        *)
(* 2025-11-02, start 10:00, end 11:00, customer 田中 and confidence at     *)
(* least 0.9.                                                              *)
C19_ScenarioA ==
    (/\ Classified
     /\ classifier.subject = SubjectBrand
     /\ classifier.body = ScenarioABody)
        => /\ classifier.result # <<>>
           /\ classifier.result[1].action_type = TxtBooking
           /\ classifier.result[1].date = <<50, 48, 50, 53, 45, 49, 49, 45, 48, 50>>
           /\ classifier.result[1].start_time = <<49, 48, 58, 48, 48>>
           /\ classifier.result[1].end_time = <<49, 49, 58, 48, 48>>
           /\ classifier.result[1].customer_name = <<30000, 20013>>
           /\ FloatLeq(Nearest(18), classifier.result[1].confidence)

(* the mail of Scenario A was classified as None *)
C19_Witness ==
    /\ Classified
    /\ classifier.subject = SubjectBrand
    /\ classifier.body = ScenarioABody
    /\ classifier.result = <<>>

(* ---- C20 *)
(* the time of day n minutes after midnight, as HH:MM *)
ClockOf(n) ==
    ZeroPad(ToDigits((n % 1440) \div 60), 2) \o <<ChColon>> \o ZeroPad(ToDigits(n % 60), 2)

(* minutes after midnight of an HH:MM text *)
MinutesOf(clock) == 60 * ToInt(SplitColon(clock, 0)) + ToInt(SplitColon(clock, 1))

(* C20: when the body yields only one time, the end that                  *)
(* parse_reservation_info returns is the time of day 90 minutes after the  *)
(* start (hour 00-23, minute 00-59), for every start from 00:00 to 23:59,  *)
(* rolling past midnight: start 23:45 gives end 01:15.                     *)
C20_EndIsStartPlus90 ==
    (/\ parser.stage = "parsed"
     /\ parser.result # <<>>
     /\ Len(times_found(parser.body)) = 1)
        => parser.result[1].end = ClockOf(MinutesOf(parser.result[1].start) + 90)

(* a body with a date and the lone time 23:45 was parsed to the end 25:15 *)
C20_Witness ==
    /\ parser.stage = "parsed"
    /\ parser.result # <<>>
    /\ Len(times_found(parser.body)) = 1
    /\ parser.result[1].start = <<50, 51, 58, 52, 53>>
    /\ parser.result[1].end = <<50, 53, 58, 49, 53>>

(* ---- C21 *)
(* C21: when the mail connector is absent (no service) or the listing of  *)
(* the messages fails, the sync run applies no event, leaves the store     *)
(* unchanged and is reported as a failed run, not as a successful one.     *)
C21_ConnectorFailureIsFailedRun ==
    \A service \in {"none", "ok"}, list_ok \in BOOLEAN, messages \in SeqsUpTo(GenMessages, 1) :
        ~(service = "ok" /\ list_ok) =>
            LET out == sync_gmail_reservations(reservations_db, reservation_judgment_logs,
                           "valid", "ok",
                           get_recent_reservations(service, list_ok, messages))
            IN /\ out.db = reservations_db
               /\ out.resp.status # 200

(* the store holds a slot, and a sync run without a connector service     *)
(* answered 200 with zero events                                           *)
C21_Witness ==
    /\ TotalSlots(reservations_db) > 0
    /\ LET out == sync_gmail_reservations(reservations_db, reservation_judgment_logs,
                      "valid", "ok", get_recent_reservations("none", TRUE, <<>>))
       IN /\ out.db = reservations_db
          /\ out.resp.status = 200
          /\ out.resp.total_found = 0

(* ---- C22 *)
(* C22: for every content of the table, backup_to_json followed by        *)
(* restore_from_json into an empty ReservationDB gives a table with the    *)
(* same number of slots as the table held when it was backed up, also when *)
(* several slots share date, start and type.                               *)
C22_BackupRestoreKeepsCount ==
    \A t \in Threads :
        (threads[t].pc = "returned" /\ threads[t].path = "restore")
        => /\ Len(threads[t].table.rows) = SlotsOfItems(threads[t].reservations)
           /\ threads[t].migrated_count = SlotsOfItems(threads[t].reservations)

(* a client backed up two slots with the same date, start and type, read   *)
(* back the file as it wrote it and restored it into a new table, which    *)
(* holds one row                                                           *)
C22_Witness ==
    \E t \in Threads :
        /\ threads[t].pc = "returned" /\ threads[t].path = "restore"
        /\ threads[t].read.valid
        /\ threads[t].read.reservations = threads[t].reservations
        /\ Len(threads[t].reservations) = 1
        /\ Len(threads[t].reservations[1].reservations) = 2
        /\ threads[t].reservations[1].reservations[1].start
               = threads[t].reservations[1].reservations[2].start
        /\ threads[t].reservations[1].reservations[1].type
               = threads[t].reservations[1].reservations[2].type
        /\ Len(threads[t].table.rows) = 1
        /\ threads[t].migrated_count = 1

(* two clients named their backups after one second: the one restored a    *)
(* file that the other had written over with a backup of another length    *)
C22_WitnessOverwritten ==
    \E t \in Threads :
        /\ threads[t].pc = "returned" /\ threads[t].path = "restore"
        /\ threads[t].read.valid
        /\ SlotsOfItems(threads[t].read.reservations) # SlotsOfItems(threads[t].reservations)

(* a client read its backup file while another had opened it for writing   *)
(* and not yet written: json.load raised JSONDecodeError                   *)
C22_WitnessTruncated ==
    \E t \in Threads :
        /\ threads[t].pc = "raised" /\ threads[t].path = "restore"
        /\ threads[t].error = "JSONDecodeError"
        /\ threads[t].read.size = 0

(* two clients had the file open at once and the shorter backup was        *)
(* written second: the file the client read was no JSON text               *)
C22_WitnessGarbled ==
    \E t \in Threads :
        /\ threads[t].pc = "raised" /\ threads[t].path = "restore"
        /\ threads[t].error = "JSONDecodeError"
        /\ threads[t].read.size > 0
        /\ ~threads[t].read.valid

(* the file grew between the two reads of json.load *)
C22_WitnessGrown ==
    \E t \in Threads :
        /\ threads[t].pc = "raised" /\ threads[t].path = "restore"
        /\ threads[t].error = "JSONDecodeError"
        /\ threads[t].read.valid
        /\ backup_files[threads[t].backup_file].size > threads[t].read.size

(* a migration failed on a slot whose end is None and left the database    *)
(* locked; the insert of another migration raised OperationalError         *)
C22_WitnessLocked ==
    \E t \in Threads, u \in Threads :
        /\ threads[t].pc = "raised" /\ threads[t].error = "IntegrityError"
        /\ threads[u].pc = "raised" /\ threads[u].error = "OperationalError"
        /\ database.locked

(* ---- C23 *)
(* no slot of the date has the start and type 'gmail' *)
NoGmailSlot(db, date, start_time) ==
    date \in DOMAIN db =>
        \A i \in DOMAIN db[date] :
            ~(db[date][i]["start"] = start_time /\ db[date][i]["type"] = TxtGmail)

(* C23: process_email with action_type 'cancellation' and no matching     *)
(* slot answers 404 (reservation not found) and leaves the store           *)
(* unchanged, both when the date has slots of which none matches and when  *)
(* the date is not a key of the store; it never answers with the 400 of    *)
(* an unknown action type.                                                 *)
C23_CancelNotFoundIs404 ==
    \A date \in Dates, start_time \in Starts :
        NoGmailSlot(reservations_db, date, start_time) =>
            LET out == process_email(reservations_db, reservation_judgment_logs,
                                     ProcessData(TxtCancellation, date, start_time, Absent))
            IN /\ out.db = reservations_db
               /\ out.resp.status = 404

(* the store holds slots on one date only, and a cancellation for the     *)
(* other date was answered 400 with the store unchanged                    *)
C23_Witness ==
    /\ D1 \in DOMAIN reservations_db /\ Len(reservations_db[D1]) > 0
    /\ D2 \notin DOMAIN reservations_db
    /\ LET out == process_email(reservations_db, reservation_judgment_logs,
                                ProcessData(TxtCancellation, D2, S1, Absent))
       IN out.db = reservations_db /\ out.resp.status = 400

(* ---- C24 *)
(* every slot of the store has a start and an end and is kept under a     *)
(* date                                                                    *)
SlotsComplete(db) ==
    \A date \in DOMAIN db :
        /\ ~Falsy(date)
        /\ \A i \in DOMAIN db[date] :
              ~Falsy(Get(db[date][i], "start")) /\ ~Falsy(Get(db[date][i], "end"))

(* C24: a booking that lacks its date, start or end is rejected with the  *)
(* store unchanged, by add_reservation and by process_email, so that every *)
(* slot of the store keeps a non-empty start and end under a non-empty     *)
(* date key.                                                               *)
C24_IncompleteBookingRejected ==
    SlotsComplete(reservations_db) =>
      /\ \A key \in {"date", "start", "end"} :
            LET out == add_reservation(reservations_db, reservation_judgment_logs, "valid",
                                       Without(ManualData(D1, S1, E1, TxtTanaka), key))
            IN out.db = reservations_db /\ SlotsComplete(out.db)
      /\ \A key \in {"date", "start_time", "end_time"} :
            LET out == process_email(reservations_db, reservation_judgment_logs,
                                     Without(ProcessData(TxtBooking, D1, S1, E1), key))
            IN out.db = reservations_db /\ SlotsComplete(out.db)

(* the store holds a slot, and a manual booking without a start was       *)
(* answered 200 and stored as a slot without a start                       *)
C24_Witness ==
    /\ TotalSlots(reservations_db) > 0
    /\ SlotsComplete(reservations_db)
    /\ LET out == add_reservation(reservations_db, reservation_judgment_logs, "valid",
                                  Without(ManualData(D1, S1, E1, TxtTanaka), "start"))
       IN /\ out.resp.status = 200
          /\ TotalSlots(out.db) = TotalSlots(reservations_db) + 1
          /\ ~SlotsComplete(out.db)

(* ---- C25 *)
(* C25: once a booking has been added by a mail sync run and a later run   *)
(* has applied its cancellation message, a further run that fetches the    *)
(* cancellation message and the booking message again (same message ids,   *)
(* the newer cancellation first) leaves no slot with that (date, start,    *)
(* customer_name).                                                         *)
C25_CancelledStaysCancelled ==
    \A d \in Dates, s \in Starts :
        LET booking == BookingMail(Id1, d, s, E1, TxtTanaka)
            cancellation == CancelMail(Id2, d, s, E1, TxtTanaka)
            booked == RunSync(reservations_db, reservation_judgment_logs, <<booking>>)
            cancelled == RunSync(booked.db, booked.logs, <<cancellation>>)
            again == RunSync(cancelled.db, cancelled.logs, <<cancellation, booking>>)
        IN (/\ KeyCount(reservations_db, d, s, TxtTanaka) = 0
            /\ booked.resp.added = 1
            /\ cancelled.resp.status = 200)
               => KeyCount(again.db, d, s, TxtTanaka) = 0

(* the store holds other slots; a booking was added, the run over its      *)
(* cancellation message removed nothing, and the slot is there after the   *)
(* run that saw both messages again; a run that sees both messages on a    *)
(* store without the slot adds it                                          *)
C25_Witness ==
    /\ TotalSlots(reservations_db) > 0
    /\ KeyCount(reservations_db, D1, S2, TxtTanaka) = 0
    /\ LET booking == BookingMail(Id1, D1, S2, E1, TxtTanaka)
           cancellation == CancelMail(Id2, D1, S2, E1, TxtTanaka)
           booked == RunSync(reservations_db, reservation_judgment_logs, <<booking>>)
           cancelled == RunSync(booked.db, booked.logs, <<cancellation>>)
           again == RunSync(cancelled.db, cancelled.logs, <<cancellation, booking>>)
           fresh == RunSync(reservations_db, reservation_judgment_logs,
                            <<cancellation, booking>>)
       IN /\ KeyCount(booked.db, D1, S2, TxtTanaka) = 1
          /\ cancelled.resp.cancelled = 0
          /\ KeyCount(cancelled.db, D1, S2, TxtTanaka) = 1
          /\ KeyCount(again.db, D1, S2, TxtTanaka) = 1
          /\ fresh.resp.added = 1
          /\ KeyCount(fresh.db, D1, S2, TxtTanaka) = 1

(* ---- C26 *)
(* the slots of one date that share a start and carry a group number have *)
(* pairwise distinct group numbers                                         *)
GroupsDistinct(db) ==
    \A date \in DOMAIN db : \A i, j \in DOMAIN db[date] :
        (/\ i < j
         /\ db[date][i]["start"] = db[date][j]["start"]
         /\ db[date][i]["group"] # AbsentN
         /\ db[date][j]["group"] # AbsentN)
            => db[date][i]["group"] # db[date][j]["group"]

(* C26: after any sequence of bookings and cancellations, the slots on    *)
(* one date that share a start have pairwise distinct group numbers; here  *)
(* after a mail sync run with two bookings for one start, for two          *)
(* customers.                                                              *)
C26_GroupsPairwiseDistinct ==
    GroupsDistinct(reservations_db) =>
        \A d \in Dates, s \in Starts :
            GroupsDistinct(RunSync(reservations_db, reservation_judgment_logs,
                               <<BookingMail(Id1, d, s, E1, TxtTanaka),
                                 BookingMail(Id2, d, s, E1, TxtNA)>>).db)

(* a mail sync run added two slots for one start, and both have group 1 *)
C26_Witness ==
    LET out == RunSync(reservations_db, reservation_judgment_logs,
                       <<BookingMail(Id1, D1, S2, E1, TxtTanaka),
                         BookingMail(Id2, D1, S2, E1, TxtNA)>>)
    IN /\ TotalSlots(reservations_db) > 0
       /\ StartCount(reservations_db, D1, S2) = 0
       /\ out.resp.added = 2
       /\ \A i \in DOMAIN out.db[D1] :
              out.db[D1][i]["start"] = S2 => out.db[D1][i]["group"] = 1

(* ---- C27 *)
(* C27: a request without a valid admin session and without the webhook   *)
(* secret leaves the store unchanged, by add_reservation,                  *)
(* delete_reservation_api, process_email, gas_webhook and                  *)
(* sync_gmail_reservations.                                                *)
C27_NoChangeWithoutAuthentication ==
    \A cookie \in Cookies \ {"valid"}, auth_header \in {"wrong", "none"} :
        /\ \A data \in GenManual :
              add_reservation(reservations_db, reservation_judgment_logs,
                              cookie, data).db = reservations_db
        /\ \A date \in Dates, index \in 0..MaxSlots :
              delete_reservation_api(reservations_db, reservation_judgment_logs,
                                     cookie, date, index).db = reservations_db
        /\ \A reservations \in SeqsUpTo(GenGas, 1) :
              gas_webhook(reservations_db, reservation_judgment_logs,
                          auth_header, TRUE, reservations).db = reservations_db
        /\ \A messages \in SeqsUpTo(GenMessages, 1) :
              sync_gmail_reservations(reservations_db, reservation_judgment_logs, cookie, "ok",
                                      RecentReservations[messages]).db = reservations_db
        /\ \A data \in GenProcess :
              process_email(reservations_db, reservation_judgment_logs, data).db
                  = reservations_db

(* a process_email request, which carries no credential, was answered 200 *)
(* and removed a slot of the store, while the same caller's manual entry   *)
(* was refused with 401                                                    *)
C27_Witness ==
    LET out == process_email(reservations_db, reservation_judgment_logs,
                             ProcessData(TxtCancellation, D1, S1, Absent))
    IN /\ out.resp.status = 200
       /\ TotalSlots(out.db) = TotalSlots(reservations_db) - 1
       /\ add_reservation(reservations_db, reservation_judgment_logs, "none",
                          ManualData(D1, S1, E1, TxtTanaka)).resp.status = 401

(* ---- C28 *)
(* C28: under concurrent requests on one date a cancellation removes only *)
(* a slot that matches its key, also when another request removes a slot   *)
(* between the cancellation's match at index i and its pop(i): no other    *)
(* slot is removed and no IndexError ends the request.                     *)
C28_ConcurrentCancelRemovesMatch ==
    \A t \in Threads :
        threads[t].path = "gas"
        => /\ threads[t].pc # "failed"
           /\ threads[t].pc = "cancelled" =>
                 GasCancelVerdict(threads[t].removed[1], threads[t].reservation) = "yes"

(* a webhook cancellation removed a slot with another start while the     *)
(* slot it had matched is still in the store, after the other thread       *)
(* removed a slot in front of it                                           *)
C28_Witness ==
    \E t \in Threads, u \in Threads :
        /\ t # u
        /\ threads[t].pc = "cancelled" /\ threads[t].path = "gas"
        /\ threads[u].pc \in {"cancelled", "deleted"}
        /\ GasCancelVerdict(threads[t].removed[1], threads[t].reservation) = "no"
        /\ StartCount(reservations_db, D1, threads[t].reservation["start"]) = 1

(* a cancellation that had matched a slot ended with an IndexError after  *)
(* the other thread shortened the list                                     *)
C28_WitnessIndexError ==
    \E t \in Threads : threads[t].path = "gas" /\ threads[t].pc = "failed"

(* a cancellation found no slot although the slot it asks for is in the   *)
(* store: the other thread removed a slot in front of its position         *)
C28_WitnessSkipped ==
    \E t \in Threads :
        /\ threads[t].path = "gas" /\ threads[t].pc = "notfound"
        /\ \E i \in 1..Len(reservations_db[D1]) :
              GasCancelVerdict(reservations_db[D1][i], threads[t].reservation) = "yes"

(* two deletes of one index: the second pop raised IndexError *)
C28_WitnessDeleteIndexError ==
    \E t \in Threads, u \in Threads :
        /\ threads[t].path = "delete" /\ threads[t].pc = "deleted"
        /\ threads[u].path = "delete" /\ threads[u].pc = "failed"
        /\ reservations_db[D1] = <<>>

(* ---- C29 *)
(* C29: the same booking (same date, start, end and customer_name, or     *)
(* none in both) delivered once through gas_webhook and once through mail  *)
(* sync, to a store that holds no slot for it, leaves exactly one slot     *)
(* for it, whichever delivery is applied first.                            *)
C29_GasAndSyncOneSlot ==
    \A d \in Dates, s \in Starts, e \in Ends, c \in {TxtTanaka, Absent} :
        LET gas == <<GasRecord(d, s, e, c, PyFalse)>>
            sync == <<BookingMail(Id1, d, s, e, StoredName(c))>>
            gas1 == RunGas(reservations_db, reservation_judgment_logs, gas)
            gas_sync == RunSync(gas1.db, gas1.logs, sync)
            sync1 == RunSync(reservations_db, reservation_judgment_logs, sync)
            sync_gas == RunGas(sync1.db, sync1.logs, gas)
        IN KeyCount(reservations_db, d, s, StoredName(c)) = 0 =>
             /\ KeyCount(gas_sync.db, d, s, StoredName(c)) = 1
             /\ KeyCount(sync_gas.db, d, s, StoredName(c)) = 1

(* the store holds other slots; a booking without a customer name left    *)
(* one slot when the webhook came first and two when mail sync came first  *)
C29_Witness ==
    LET gas == <<GasRecord(D1, S2, E1, Absent, PyFalse)>>
        sync == <<BookingMail(Id1, D1, S2, E1, TxtNA)>>
        gas1 == RunGas(reservations_db, reservation_judgment_logs, gas)
        gas_sync == RunSync(gas1.db, gas1.logs, sync)
        sync1 == RunSync(reservations_db, reservation_judgment_logs, sync)
        sync_gas == RunGas(sync1.db, sync1.logs, gas)
    IN /\ TotalSlots(reservations_db) > 0
       /\ KeyCount(reservations_db, D1, S2, TxtNA) = 0
       /\ KeyCount(gas_sync.db, D1, S2, TxtNA) = 1
       /\ KeyCount(sync_gas.db, D1, S2, TxtNA) = 2

(* a booking with a customer name left one slot in either order *)
C29_NamedOneSlot ==
    \A d \in Dates, s \in Starts, e \in Ends :
        LET gas == <<GasRecord(d, s, e, TxtTanaka, PyFalse)>>
            sync == <<BookingMail(Id1, d, s, e, TxtTanaka)>>
            gas1 == RunGas(reservations_db, reservation_judgment_logs, gas)
            sync1 == RunSync(reservations_db, reservation_judgment_logs, sync)
        IN KeyCount(reservations_db, d, s, TxtTanaka) = 0 =>
             /\ KeyCount(RunSync(gas1.db, gas1.logs, sync).db, d, s, TxtTanaka) = 1
             /\ KeyCount(RunGas(sync1.db, sync1.logs, gas).db, d, s, TxtTanaka) = 1

(* ---- C30 *)
Fetched == classifier.stage = "fetched"

(* what the classifier returns for the mail of the run, <<>> when the      *)
(* content could not be read                                               *)
FetchedInfo ==
    IF classifier.messages[1].content = <<>> THEN <<>>
    ELSE classify_email(classifier.subject, classifier.body)

(* C30: fetch_and_parse_reservations emits an event for a message only     *)
(* when the classifier returned one with confidence strictly greater than  *)
(* 0.7, and the event carries that classification; a classified booking    *)
(* whose only corroborating signals are the date and the time range        *)
(* (score 0.5 + 0.1 + 0.1) has confidence exactly 0.7 and is not emitted.  *)
C30_EmitsOnlyAboveThreshold ==
    Fetched =>
        \A info \in {FetchedInfo} :
            /\ \A k \in DOMAIN classifier.reservations :
                 /\ info # <<>>
                 /\ FloatLess(Nearest(14), info[1].confidence)
                 /\ classifier.reservations[k].confidence = info[1].confidence
                 /\ classifier.reservations[k].action_type = info[1].action_type
                 /\ classifier.reservations[k].message_id = classifier.messages[1].id
            /\ (/\ info # <<>>
                /\ ExactScore(info[1].action_type, classifier.body) = 14)
                  => /\ info[1].confidence = Nearest(14)
                     /\ classifier.reservations = <<>>
                     /\ classifier.labelled = <<>>

(* a mail with the brand only in the subject, the included store, a date,  *)
(* a time range and ご予約を承ります was classified as a booking by the     *)
(* secondary heuristic with confidence exactly 0.7, and the run returned   *)
(* no event                                                                *)
C30_Witness ==
    /\ Fetched
    /\ classifier.subject = SubjectBrand
    /\ ~HasBrand(classifier.body)
    /\ In(LineUketamawarimasu, classifier.body)
    /\ Matched(booking_keywords, classifier.body) = {}
    /\ classifier.reservations = <<>>
    /\ \E info \in {FetchedInfo} :
         /\ info # <<>>
         /\ info[1].action_type = TxtBooking
         /\ info[1].confidence = Nearest(14)

(* a run emitted an event, and labelled its message *)
C30_WitnessEmitted ==
    /\ Fetched
    /\ Len(classifier.reservations) = 1
    /\ Len(classifier.labelled) = 1

====
